---- MODULE Spec2Model ----
(***************************************************************************)
(* Photo Tinder desktop: the ranking engine (Glicko updater, comparison    *)
(* ledger, phase switch) and the triage decision history, as a state       *)
(* machine over the fields of PersistentState / RankingState.              *)
(*                                                                         *)
(* Numbers.  The program computes ratings in f64.  The model computes the  *)
(* same formulas in integer fixed point: mu and sigma are whole rating     *)
(* points, g / expected score / actual score are in units of 1/FP, and the *)
(* reciprocal variances 1/sigma^2 and 1/d^2 are in units of 1/INV.  Every  *)
(* intermediate product stays below 2^31.                                  *)
(***************************************************************************)
EXTENDS Integers, Sequences, FiniteSets, TLC

\* ------------------------------------------------------------------------
\* ranking.rs : Glicko constants and the update rule
\* ------------------------------------------------------------------------

\* fixed-point unit of g, e and s (1.0 == FP)
FP == 10 ^ 4

\* fixed-point unit of the reciprocal variances (1.0 == INV)
INV == 10 ^ 9

\* GLICKO_Q = 0.0057565, in units of 10^-7
GLICKO_Q == 57565

DEFAULT_MU == 1500

DEFAULT_SIGMA == 350

MIN_SIGMA == 50

\* std::f64::consts::PI in units of 1/FP
PI == 31416

\* GLICKO_Q.powi(2) in units of 1/INV   (57565^2 * 10^-14 * 10^9)
GLICKO_Q_SQ == ((GLICKO_Q \div 5) * (GLICKO_Q \div 5)) \div 4000

\* PI.powi(2) in units of 1/FP
PI_SQ == (PI * PI) \div FP

Abs(x) == IF x < 0 THEN -x ELSE x

RECURSIVE SqrtSearch(_, _, _)
SqrtSearch(n, lo, hi) ==
    IF lo >= hi THEN lo
    ELSE LET mid == (lo + hi + 1) \div 2
         IN  IF mid * mid <= n THEN SqrtSearch(n, mid, hi)
                               ELSE SqrtSearch(n, lo, mid - 1)

\* f64::sqrt on a non-negative integer, rounded down
Sqrt(n) == SqrtSearch(n, 0, 46340)

\* 10^(1/2), 10^(1/4), ... , 10^(1/256) in units of 1/FP
Pow10Roots == <<31623, 17783, 13335, 11548, 10746, 10366, 10182, 10090>>

RECURSIVE Pow10Frac(_, _, _)
\* 10^(f/256) in units of 1/FP, for 0 <= f < 256: the product of the roots
\* selected by the binary digits of f
Pow10Frac(f, i, acc) ==
    IF i > 8 THEN acc
    ELSE LET bit == (f \div (2 ^ (8 - i))) % 2
         IN  Pow10Frac(f, i + 1,
                       IF bit = 1 THEN (acc * Pow10Roots[i]) \div FP ELSE acc)

\* 10_f64.powf(x) for x >= 0 given in units of 1/256, result in units of
\* 1/FP; saturates at 10^5 (an expected score below 10^-5 reads as 0)
Powf10(x256) ==
    LET k == x256 \div 256
        r == Pow10Frac(x256 % 256, 1, FP)
    IN  IF k >= 5 THEN FP * (10 ^ 5) ELSE r * (10 ^ k)

\* Glicko g-function, in units of 1/FP
glicko_g(sigma) ==
    LET term == (((3 * GLICKO_Q_SQ * FP) \div PI_SQ) * (sigma * sigma)) \div (10 ^ 5)
    IN  (FP * FP) \div Sqrt((FP + term) * FP)

\* Expected score of A against B, in units of 1/FP
glicko_expected_score(mu_a, mu_b, sigma_b) ==
    LET d    == mu_a - mu_b
        x256 == (((glicko_g(sigma_b) * Abs(d)) \div 400) * 256) \div FP
        low  == (FP * FP) \div (FP + Powf10(x256))
    IN  IF d >= 0 THEN FP - low ELSE low

\* 1 / d_squared(sigma_opp, e), in units of 1/INV.  The guard 1e-10 is a
\* tenth of the unit and rounds to 0.
inv_d_squared(sigma_opp, e) ==
    LET g_val == glicko_g(sigma_opp)
        g_sq  == (g_val * g_val) \div FP
        e_var == (e * (FP - e)) \div FP
    IN  (((GLICKO_Q_SQ * g_sq) \div FP) * e_var) \div FP + (1 \div 10)

\* 1 / (1/sigma^2 + 1/d2): the square of the new sigma before the floor
new_variance(sigma, inv_d2) == INV \div ((INV \div (sigma * sigma)) + inv_d2)

\* a step of the same size away from the actual score
mu_step_reversed(variance, sigma_opp, s, e) ==
    LET a == (variance * glicko_g(sigma_opp)) \div FP
        b == (a * Abs(s - e)) \div FP
        m == (b * (GLICKO_Q \div 10)) \div (10 ^ 6)
    IN  IF s >= e THEN -m ELSE m

\* GLICKO_Q * variance * g(opp) * (s - e), in rating points (toward zero)
mu_step(variance, sigma_opp, s, e) ==
    LET a == (variance * glicko_g(sigma_opp)) \div FP
        b == (a * Abs(s - e)) \div FP
        m == (b * (GLICKO_Q \div 10)) \div (10 ^ 6)
    IN  IF s >= e THEN m ELSE -m

Max(a, b) == IF a >= b THEN a ELSE b

Min(a, b) == IF a <= b THEN a ELSE b

\* glicko_update without its floor
sigma_floor_missing(sigma) == sigma

\* the sigma floor of glicko_update
sigma_floor(sigma) == Max(sigma, MIN_SIGMA)

\* glicko_update: <<<<new_winner_mu, new_winner_sigma>>, <<new_loser_mu, new_loser_sigma>>>>
glicko_update(winner_mu, winner_sigma, loser_mu, loser_sigma, is_tie) ==
    LET s_winner == IF is_tie THEN FP \div 2 ELSE FP
        s_loser  == IF is_tie THEN FP \div 2 ELSE 0
        e_winner == glicko_expected_score(winner_mu, loser_mu, loser_sigma)
        e_loser  == glicko_expected_score(loser_mu, winner_mu, winner_sigma)
        var_winner == new_variance(winner_sigma, inv_d_squared(loser_sigma, e_winner))
        var_loser  == new_variance(loser_sigma, inv_d_squared(winner_sigma, e_loser))
        new_mu_winner == winner_mu + mu_step(var_winner, loser_sigma, s_winner, e_winner)
        new_mu_loser  == loser_mu + mu_step(var_loser, winner_sigma, s_loser, e_loser)
    IN  << <<new_mu_winner, sigma_floor(Sqrt(var_winner))>>,
           <<new_mu_loser, sigma_floor(Sqrt(var_loser))>> >>

\* Option::None of a string, and of a pair or a path
None == "None"

Nothing == <<>>

\* get_conservative_score
get_conservative_score(mu, sigma) == mu - 2 * sigma

\* ------------------------------------------------------------------------
\* ranking.rs : pair selection
\* ------------------------------------------------------------------------

\* the sum of the sigmas of a sequence of ids
RECURSIVE sum_sigma(_, _, _)
sum_sigma(ratings, ids, i) ==
    IF i > Len(ids) THEN 0 ELSE ratings[ids[i]].sigma + sum_sigma(ratings, ids, i + 1)

\* the entries of a sequence that satisfy a membership test, in their order
RECURSIVE filter_in(_, _, _)
filter_in(ids, keep, i) ==
    IF i > Len(ids) THEN <<>>
    ELSE IF ids[i] \in keep THEN <<ids[i]>> \o filter_in(ids, keep, i + 1)
    ELSE filter_in(ids, keep, i + 1)

\* the last of the ids with the largest sigma
highest_sigma_last(ratings, ids) ==
    ids[CHOOSE i \in 1..Len(ids) :
            /\ \A j \in 1..Len(ids) : ratings[ids[j]].sigma <= ratings[ids[i]].sigma
            /\ \A j \in (i + 1)..Len(ids) : ratings[ids[j]].sigma < ratings[ids[i]].sigma]

\* the first entry of a stable sort of ids by sigma, descending: the first of
\* the ids with the largest sigma
highest_sigma(ratings, ids) ==
    ids[CHOOSE i \in 1..Len(ids) :
            /\ \A j \in 1..Len(ids) : ratings[ids[j]].sigma <= ratings[ids[i]].sigma
            /\ \A j \in 1..(i - 1) : ratings[ids[j]].sigma < ratings[ids[i]].sigma]

\* Iterator::min_by on the distance of mu to primary_mu: the first of the ids
\* at the smallest distance
nearest_mu(ratings, ids, primary_mu) ==
    ids[CHOOSE i \in 1..Len(ids) :
            /\ \A j \in 1..Len(ids) :
                  Abs(ratings[ids[j]].mu - primary_mu) >= Abs(ratings[ids[i]].mu - primary_mu)
            /\ \A j \in 1..(i - 1) :
                  Abs(ratings[ids[j]].mu - primary_mu) > Abs(ratings[ids[i]].mu - primary_mu)]

\* three comparisons whatever the size of the cluster
required_matches_flat(n_photos) == 3

\* the comparisons each photo of a cluster of n photos needs
required_matches(n_photos) == IF n_photos = 2 THEN 1 ELSE IF n_photos = 3 THEN 2 ELSE 3

\* a selection that pairs the first two listed members, rated or not
cluster_pair_unfiltered(cluster, ratings) ==
    IF cluster.internal_ranking_complete \/ Len(cluster.photo_ids) < 2 THEN Nothing
    ELSE <<cluster.photo_ids[1], cluster.photo_ids[2]>>

\* a selection that passes every cluster by
cluster_pair_none(cluster, ratings) == Nothing

\* the pair select_intra_cluster_pair takes from one cluster, or Nothing when it
\* passes the cluster over
cluster_pair(cluster, ratings) ==
    LET valid_ids == filter_in(cluster.photo_ids, DOMAIN ratings, 1)
        n_photos == Len(valid_ids)
        min_matches == CHOOSE m \in {ratings[valid_ids[i]].matches_played : i \in 1..n_photos} :
                          \A i \in 1..n_photos : m <= ratings[valid_ids[i]].matches_played
        primary == highest_sigma(ratings, valid_ids)
        candidates == filter_in(valid_ids, (DOMAIN ratings) \ {primary}, 1)
        opponent == nearest_mu(ratings, candidates, ratings[primary].mu)
    IN  IF cluster.internal_ranking_complete THEN Nothing
        ELSE IF n_photos < 2 THEN Nothing
        ELSE IF sum_sigma(ratings, valid_ids, 1) < 100 * n_photos
                \/ min_matches >= required_matches(n_photos) THEN Nothing
        ELSE IF candidates = <<>> THEN Nothing
        ELSE <<primary, opponent>>

\* select_intra_cluster_pair: the pair of the first cluster, in the
\* iteration order of the HashMap, that is not passed over
select_intra_cluster_pair(clusters, ratings) ==
    LET pairs == {cluster_pair(clusters[c], ratings) : c \in DOMAIN clusters} \ {Nothing}
    IN  IF pairs = {} THEN {Nothing} ELSE pairs

\* a global selection that draws the primary from all photos
select_global_pair_any_primary(ratings) ==
    LET all_photos == DOMAIN ratings
        n == Cardinality(all_photos)
        sample_size == Min(20, n - 1)
        gap(p, o) == Abs(ratings[o].mu - ratings[p].mu)
        nearer(p, o) == {x \in all_photos \ {p} : gap(p, x) < gap(p, o)}
        opponent_of(p, o) == /\ o # p
                             /\ (n - 1) - Cardinality(nearer(p, o)) >= sample_size
    IN  IF n < 2 THEN {Nothing}
        ELSE {po \in all_photos \X all_photos : opponent_of(po[1], po[2])}

\* select_global_pair: primary is drawn from the top_n entries of a stable
\* sort by sigma of the keys in HashMap order, the opponent is the nearest in
\* mu of a sample of 20 of the others
select_global_pair(ratings) ==
    LET all_photos == DOMAIN ratings
        n == Cardinality(all_photos)
        top_n == Max(10, n \div 10)
        above(p) == {x \in all_photos : ratings[x].sigma > ratings[p].sigma}
        primaries == {p \in all_photos : Cardinality(above(p)) < top_n}
        sample_size == Min(20, n - 1)
        gap(p, o) == Abs(ratings[o].mu - ratings[p].mu)
        nearer(p, o) == {x \in all_photos \ {p} : gap(p, x) < gap(p, o)}
        opponent_of(p, o) == /\ o # p
                             /\ (n - 1) - Cardinality(nearer(p, o)) >= sample_size
    IN  IF n < 2 THEN {Nothing}
        ELSE {po \in primaries \X all_photos : opponent_of(po[1], po[2])}

\* a selection that gives up when no cluster yields a pair
select_pair_without_fallback(ranking) ==
    LET intra == select_intra_cluster_pair(ranking.clusters, ranking.ratings)
    IN  IF Cardinality(DOMAIN ranking.ratings) < 2 THEN {Nothing}
        ELSE IF ranking.phase = "intra_cluster" /\ DOMAIN ranking.clusters # {}
        THEN intra
        ELSE select_global_pair(ranking.ratings)

\* select_pair: every pair it can return, Nothing standing for no pair
select_pair(ranking) ==
    LET intra == select_intra_cluster_pair(ranking.clusters, ranking.ratings)
    IN  IF Cardinality(DOMAIN ranking.ratings) < 2 THEN {Nothing}
        ELSE IF ranking.phase = "intra_cluster" /\ DOMAIN ranking.clusters # {} /\ intra # {Nothing}
        THEN intra
        ELSE select_global_pair(ranking.ratings)

\* a finalize_cluster that takes the member of highest mu as representative
finalize_cluster_by_mu(cluster, ratings) ==
    LET rated == filter_in(cluster.photo_ids, DOMAIN ratings, 1)
        best == CHOOSE i \in 1..Len(rated) :
                    /\ \A j \in 1..Len(rated) : ratings[rated[j]].mu <= ratings[rated[i]].mu
                    /\ \A j \in (i + 1)..Len(rated) : ratings[rated[j]].mu < ratings[rated[i]].mu
    IN  [cluster EXCEPT !.internal_ranking_complete = TRUE,
                        !.representative_id = IF rated = <<>> THEN None ELSE rated[best]]

\* finalize_cluster: the cluster it leaves.  Iterator::max_by returns the last
\* of the rated members with the highest conservative score.
finalize_cluster(cluster, ratings) ==
    LET rated == filter_in(cluster.photo_ids, DOMAIN ratings, 1)
        score(id) == get_conservative_score(ratings[id].mu, ratings[id].sigma)
        best == CHOOSE i \in 1..Len(rated) :
                    /\ \A j \in 1..Len(rated) : score(rated[j]) <= score(rated[i])
                    /\ \A j \in (i + 1)..Len(rated) : score(rated[j]) < score(rated[i])
    IN  [cluster EXCEPT !.internal_ranking_complete = TRUE,
                        !.representative_id = IF rated = <<>> THEN None ELSE rated[best]]

\* check_intra_cluster_complete
check_intra_cluster_complete(clusters) ==
    \A c \in DOMAIN clusters : clusters[c].internal_ranking_complete

\* ------------------------------------------------------------------------
\* HashMap / Vec helpers
\* ------------------------------------------------------------------------

\* HashMap::insert
Put(m, k, v) == [x \in (DOMAIN m) \cup {k} |-> IF x = k THEN v ELSE m[x]]

\* HashMap::remove
Remove(m, k) == [x \in (DOMAIN m) \ {k} |-> m[x]]

\* Vec::split_off(keep): the elements from index keep (0-based) to the end
split_off(v, keep) == SubSeq(v, keep + 1, Len(v))

\* Vec::pop: the vector without its last element
pop(v) == SubSeq(v, 1, Len(v) - 1)

Last(v) == v[Len(v)]

\* usize::saturating_sub
saturating_sub(a, b) == IF a >= b THEN a - b ELSE 0

\* every ordering of a finite set, as sequences (the iteration orders a
\* HashMap over these keys can have)
Orders(S) == {o \in [1..Cardinality(S) -> S] : \A i, j \in 1..Cardinality(S) : o[i] = o[j] => i = j}

\* ------------------------------------------------------------------------
\* hashing.rs : Hamming distance and greedy clustering
\* ------------------------------------------------------------------------

HAMMING_THRESHOLD == 10

\* hash.len() != 64 in cluster_photos
HASH_HEX_LEN == 64

\* u32::MAX, the "no match" distance (the largest integer of the checker)
U32_MAX == 2147483647

\* hex_to_bytes: a fingerprint is a sequence of characters, the hex digits
\* being 0..15 and any other character 16; `some` is FALSE for Option::None
hex_to_bytes(hex) ==
    IF Len(hex) % 2 # 0 \/ (\E i \in 1..Len(hex) : hex[i] > 15)
    THEN [some |-> FALSE, bytes |-> <<>>]
    ELSE [some |-> TRUE,
          bytes |-> [i \in 1..(Len(hex) \div 2) |-> 16 * hex[2 * i - 1] + hex[2 * i]]]

RECURSIVE count_ones_xor(_, _, _)
\* (a ^ b).count_ones() over the low `bits` bits
count_ones_xor(a, b, bits) ==
    IF bits = 0 THEN 0
    ELSE (IF a % 2 # b % 2 THEN 1 ELSE 0) + count_ones_xor(a \div 2, b \div 2, bits - 1)

\* a distance that never looks at the lengths
hamming_distance_unchecked(hash1, hash2) ==
    Cardinality({i \in 1..Min(Len(hash1), Len(hash2)) : hash1[i] # hash2[i]})

RECURSIVE SumBytes(_, _, _)
SumBytes(b1, b2, i) ==
    IF i > Len(b1) \/ i > Len(b2) THEN 0
    ELSE count_ones_xor(b1[i], b2[i], 8) + SumBytes(b1, b2, i + 1)

hamming_distance(hash1, hash2) ==
    IF Len(hash1) # Len(hash2) THEN U32_MAX
    ELSE IF ~hex_to_bytes(hash1).some THEN U32_MAX
    ELSE IF ~hex_to_bytes(hash2).some THEN U32_MAX
    ELSE SumBytes(hex_to_bytes(hash1).bytes, hex_to_bytes(hash2).bytes, 1)

\* format!("cluster_{:04}", cluster_count)
ClusterNames == <<"cluster_0000", "cluster_0001", "cluster_0002", "cluster_0003">>

\* one id for every cluster
cluster_id_fixed(cluster_count) == ClusterNames[1]

cluster_id_of(cluster_count) == ClusterNames[cluster_count + 1]

\* a search that takes the most recently created cluster within the threshold
last_fit(cluster_reps, hash, j) ==
    LET fits == {k \in j..Len(cluster_reps) :
                    hamming_distance(hash, cluster_reps[k][2]) <= HAMMING_THRESHOLD}
    IN  IF fits = {} THEN 0 ELSE CHOOSE k \in fits : \A m \in fits : m <= k

RECURSIVE first_fit(_, _, _)
\* the index of the first representative within the threshold, 0 if none
first_fit(cluster_reps, hash, j) ==
    IF j > Len(cluster_reps) THEN 0
    ELSE IF hamming_distance(hash, cluster_reps[j][2]) <= HAMMING_THRESHOLD THEN j
    ELSE first_fit(cluster_reps, hash, j + 1)

\* one iteration of the loop of cluster_photos over (photo_id, hash)
cluster_step(acc, photo_id, hash) ==
    IF Len(hash) # HASH_HEX_LEN THEN acc
    ELSE LET j == first_fit(acc.cluster_reps, hash, 1)
         IN  IF j > 0
             THEN LET cid == acc.cluster_reps[j][1]
                  IN  [acc EXCEPT !.clusters[cid] = Append(@, photo_id),
                                  !.photo_to_cluster = Put(@, photo_id, cid)]
             ELSE LET cid == cluster_id_of(acc.cluster_count)
                  IN  [clusters |-> Put(acc.clusters, cid, <<photo_id>>),
                       photo_to_cluster |-> Put(acc.photo_to_cluster, photo_id, cid),
                       cluster_reps |-> Append(acc.cluster_reps, <<cid, hash>>),
                       cluster_count |-> acc.cluster_count + 1]

RECURSIVE cluster_loop(_, _, _, _)
cluster_loop(hashes, order, i, acc) ==
    IF i > Len(order) THEN acc
    ELSE cluster_loop(hashes, order, i + 1, cluster_step(acc, order[i], hashes[order[i]]))

\* cluster_photos, for one iteration order of the HashMap photo_hashes
cluster_photos(hashes, order) ==
    cluster_loop(hashes, order, 1,
                 [clusters |-> <<>>, photo_to_cluster |-> <<>>,
                  cluster_reps |-> <<>>, cluster_count |-> 0])

\* ------------------------------------------------------------------------
\* state.rs : the application state
\* ------------------------------------------------------------------------

VARIABLES
    persistent,      \* AppState.persistent : PersistentState (with .ranking)
    photo_hashes,    \* AppState.photo_hashes : photo_id -> fingerprint
    image_records,   \* AppState.image_records : Vec<ImageRecord>
    pending_indices, \* AppState.pending_indices : Vec<usize>
    files,           \* the file system: the paths <<folder, name>> that hold an image
    disk,            \* the state document as last written by PersistentState::save
    clock,           \* SystemTime::now(), in whole ticks
    faults,          \* how many writes of the state or hash file have failed
    call,            \* the command being served and its arguments
    result,          \* what that command returned
    shadow           \* history variable: the ratings and counter before each
                     \* comparison still in the ledger

vars == <<persistent, photo_hashes, image_records, pending_indices, files,
          disk, clock, faults, call, result, shadow>>

\* PhotoRating::default()
PhotoRating_default == [mu |-> DEFAULT_MU, sigma |-> DEFAULT_SIGMA, matches_played |-> 0]

\* RankingState::default()
RankingState_default ==
    [initialized |-> FALSE, ratings |-> <<>>, clusters |-> <<>>,
     photo_to_cluster |-> <<>>, comparison_history |-> <<>>,
     total_comparisons |-> 0, phase |-> "", photo_count |-> 0, cluster_count |-> 0]

\* PersistentState::load() when no state file exists
PersistentState_load ==
    [current_index |-> 0, decisions |-> <<>>, history |-> <<>>,
     moved_files |-> <<>>, original_paths |-> <<>>, mode |-> "triage",
     ranking |-> RankingState_default]

\* a save that reports success without writing the document
save_keeping_file(state, written) == disk

\* PersistentState::save(): the whole document is rewritten, or the write
\* fails and the file keeps its content
save(state, written) == IF written THEN state ELSE disk

\* the failure count of the file system after one write
written_or_fault(written) == IF written THEN faults ELSE faults + 1

\* the length both undo logs are trimmed to
HISTORY_CAP == 100

\* ------------------------------------------------------------------------
\* the photos of the accepted folder
\* ------------------------------------------------------------------------

Photos == {"p1", "p2", "p3"}

\* an id that is never a key of ratings
UnknownPhoto == "p9"

\* the photos of the rankings that are drawn rather than scanned
PurePhotos == {"p1", "p2", "p3", "p4"}

\* fingerprints: 64 hex digits; FpNear is 5 bits from FpBase, FpFar 20 bits
FpBase == [i \in 1..HASH_HEX_LEN |-> 0]

FpNear == [i \in 1..HASH_HEX_LEN |-> IF i <= 5 THEN 1 ELSE 0]

FpFar == [i \in 1..HASH_HEX_LEN |-> IF i <= 5 THEN 15 ELSE 0]

\* fingerprints 10 and 11 bits from FpBase (5 and 6 bits from FpNear), and a
\* cache entry that is not 64 characters long
FpTen == [i \in 1..HASH_HEX_LEN |-> IF i <= 10 THEN 1 ELSE 0]

FpEleven == [i \in 1..HASH_HEX_LEN |-> IF i <= 11 THEN 1 ELSE 0]

FpShort == <<0, 0>>

\* compute_dhash of a decodable photo file
compute_dhash(photo_id) ==
    CASE photo_id = "p1" -> FpBase
      [] photo_id = "p2" -> FpNear
      [] OTHER -> FpFar

\* the hash cache that holds exactly the fingerprints of `ids`
hashes_of(ids) == [id \in ids |-> compute_dhash(id)]

\* cluster_photos tabulated once for every such cache and iteration order:
\* the triples <<ids, order, cluster_photos(hashes_of(ids), order)>>
ClusterTable ==
    UNION {{<<ids, order, cluster_photos(hashes_of(ids), order)>> : order \in Orders(ids)} :
           ids \in SUBSET Photos}

\* cluster_photos(hashes, order), read from the table where it has the entry
clustered_photos(hashes, order) ==
    IF DOMAIN hashes \subseteq Photos /\ hashes = hashes_of(DOMAIN hashes)
    THEN (CHOOSE t \in ClusterTable : t[1] = DOMAIN hashes /\ t[2] = order)[3]
    ELSE cluster_photos(hashes, order)

\* what scan_accepted_photos can return at the calls of init_ranking
Scans == {{}, {"p1"}, {"p1", "p3"}, {"p1", "p2", "p3"}}

\* an initialization that keeps the ratings the previous episode left
initialize_ratings_merging(photo_ids) ==
    LET old == persistent.ranking.ratings
    IN  [id \in photo_ids \cup DOMAIN old |->
            IF id \in DOMAIN old THEN old[id] ELSE PhotoRating_default]

\* the photos compute_dhash can fail on
Undecodable == {"p3"}

\* an initialization that rates only the photos whose image decodes
initialize_ratings_decodable(photo_ids) ==
    [id \in photo_ids \ Undecodable |-> PhotoRating_default]

\* initialize_ratings
initialize_ratings(photo_ids) == [id \in photo_ids |-> PhotoRating_default]

\* ------------------------------------------------------------------------
\* commands.rs : ranking commands
\* ------------------------------------------------------------------------

Ok == [ok |-> TRUE, err |-> ""]

\* an error return that reports success
Err_reported_ok(msg) == [ok |-> TRUE, err |-> ""]

Err(msg) == [ok |-> FALSE, err |-> msg]

\* Ok(UndoResult { success, message, image_id })
UndoResult(success, message, image_id) ==
    [ok |-> TRUE, err |-> "", success |-> success, message |-> message, image_id |-> image_id]

\* an undo that reports an empty log as an error
nothing_to_undo_as_error == Err("Nothing to undo")

\* what both undo commands return when their log is empty
nothing_to_undo == UndoResult(FALSE, "Nothing to undo", None)

\* the Cluster structs init_ranking builds from cluster_photos' lists
to_clusters(clusters_raw) ==
    [id \in DOMAIN clusters_raw |->
        [id |-> id, photo_ids |-> clusters_raw[id], representative_id |-> None,
         internal_ranking_complete |-> Len(clusters_raw[id]) < 2]]

\* an episode that always starts in the global phase
initial_phase_global(clusters) == "global"

\* the phase init_ranking starts the episode in
initial_phase(clusters) == IF DOMAIN clusters = {} THEN "global" ELSE "intra_cluster"

\* init_ranking.  photos: the scan of the accepted folder; undecodable: the
\* scanned photos whose image fails to decode; order: the iteration order of
\* photo_hashes in cluster_photos; hashes_written, state_written: whether the
\* two writes succeed.
init_ranking(photos, undecodable, order, hashes_written, state_written) ==
    LET hashes == [id \in (DOMAIN photo_hashes) \cup (photos \ undecodable) |->
                      IF id \in DOMAIN photo_hashes THEN photo_hashes[id]
                      ELSE compute_dhash(id)]
        clustered == clustered_photos(hashes, order)
        clusters == to_clusters(clustered.clusters)
        ranking == [initialized |-> TRUE,
                    ratings |-> initialize_ratings(photos),
                    clusters |-> clusters,
                    photo_to_cluster |-> clustered.photo_to_cluster,
                    comparison_history |-> <<>>,
                    total_comparisons |-> 0,
                    phase |-> initial_phase(clusters),
                    photo_count |-> Cardinality(photos),
                    cluster_count |-> Cardinality(DOMAIN clusters)]
    IN  /\ call' = [op |-> "init_ranking", photos |-> photos]
        /\ IF photos = {}
           THEN /\ result' = Err("No photos found in Accepted folder")
                /\ UNCHANGED <<persistent, photo_hashes, disk, faults, shadow>>
           ELSE /\ order \in Orders(DOMAIN hashes)
                /\ photo_hashes' = hashes
                /\ IF ~hashes_written
                   THEN /\ result' = Err("io")
                        /\ faults' = faults + 1
                        /\ UNCHANGED <<persistent, disk, shadow>>
                   ELSE /\ persistent' = [persistent EXCEPT !.ranking = ranking]
                        /\ shadow' = <<>>
                        /\ disk' = save(persistent', state_written)
                        /\ faults' = written_or_fault(state_written)
                        /\ result' = IF state_written THEN Ok ELSE Err("io")
        /\ UNCHANGED <<image_records, pending_indices, files, clock>>

\* an update block that rates the right photo against the left photo's new
\* rating instead of the one read before the update
apply_update_sequential(ratings, left_id, right_id, res) ==
    LET is_tie == res = "tie"
        left == ratings[left_id]
        right == ratings[right_id]
        first == IF res = "left" \/ is_tie
                 THEN glicko_update(left.mu, left.sigma, right.mu, right.sigma, is_tie)[1]
                 ELSE glicko_update(right.mu, right.sigma, left.mu, left.sigma, is_tie)[2]
        second == IF res = "left" \/ is_tie
                  THEN glicko_update(first[1], first[2], right.mu, right.sigma, is_tie)[2]
                  ELSE glicko_update(right.mu, right.sigma, first[1], first[2], is_tie)[1]
        r1 == [ratings EXCEPT ![left_id].mu = first[1], ![left_id].sigma = first[2]]
        r2 == [r1 EXCEPT ![right_id].mu = second[1], ![right_id].sigma = second[2]]
        r3 == [r2 EXCEPT ![left_id].matches_played = @ + 1]
    IN  [r3 EXCEPT ![right_id].matches_played = @ + 1]

\* an update block that counts the match for every rated photo
apply_update_counting_all(ratings, left_id, right_id, res) ==
    LET is_tie == res = "tie"
        left == ratings[left_id]
        right == ratings[right_id]
        left_first == res = "left" \/ is_tie
        upd == IF left_first
               THEN glicko_update(left.mu, left.sigma, right.mu, right.sigma, is_tie)
               ELSE glicko_update(right.mu, right.sigma, left.mu, left.sigma, is_tie)
        winner_id == IF left_first THEN left_id ELSE right_id
        loser_id == IF left_first THEN right_id ELSE left_id
        r1 == [ratings EXCEPT ![winner_id].mu = upd[1][1], ![winner_id].sigma = upd[1][2]]
        r2 == [r1 EXCEPT ![loser_id].mu = upd[2][1], ![loser_id].sigma = upd[2][2]]
    IN  [id \in DOMAIN r2 |-> [r2[id] EXCEPT !.matches_played = @ + 1]]

\* the two rating writes and the match counts of a non-skip comparison, in
\* the order compare makes them
apply_update(ratings, left_id, right_id, res) ==
    LET is_tie == res = "tie"
        left == ratings[left_id]
        right == ratings[right_id]
        left_first == res = "left" \/ is_tie
        upd == IF left_first
               THEN glicko_update(left.mu, left.sigma, right.mu, right.sigma, is_tie)
               ELSE glicko_update(right.mu, right.sigma, left.mu, left.sigma, is_tie)
        winner_id == IF left_first THEN left_id ELSE right_id
        loser_id == IF left_first THEN right_id ELSE left_id
        r1 == [ratings EXCEPT ![winner_id].mu = upd[1][1], ![winner_id].sigma = upd[1][2]]
        r2 == [r1 EXCEPT ![loser_id].mu = upd[2][1], ![loser_id].sigma = upd[2][2]]
        r3 == [r2 EXCEPT ![left_id].matches_played = @ + 1]
    IN  [r3 EXCEPT ![right_id].matches_played = @ + 1]

\* an update block that does not single out the skip
compared_ratings_always(ratings, left_id, right_id, res) ==
    apply_update(ratings, left_id, right_id, res)

\* the ratings after compare's update block
compared_ratings(ratings, left_id, right_id, res) ==
    IF res # "skip" THEN apply_update(ratings, left_id, right_id, res) ELSE ratings

\* a trim that keeps the oldest HISTORY_CAP entries, dropping the new one
push_trimmed_keeps_head(history, record) ==
    LET pushed == Append(history, record)
    IN  IF Len(pushed) > HISTORY_CAP THEN SubSeq(pushed, 1, HISTORY_CAP) ELSE pushed

\* push onto an undo log and trim it to HISTORY_CAP
push_trimmed(history, record) ==
    LET pushed == Append(history, record)
    IN  IF Len(pushed) > HISTORY_CAP
        THEN split_off(pushed, Len(pushed) - HISTORY_CAP)
        ELSE pushed

\* a switch check that fires in both directions
next_phase_toggling(ranking) ==
    IF \A c \in DOMAIN ranking.clusters : ranking.clusters[c].internal_ranking_complete
    THEN (IF ranking.phase = "intra_cluster" THEN "global" ELSE "intra_cluster")
    ELSE ranking.phase

\* a switch check that does not look at the clusters
next_phase_unconditional(ranking) == "global"

\* the phase after compare's switch check
next_phase(ranking) ==
    IF ranking.phase = "intra_cluster"
       /\ \A c \in DOMAIN ranking.clusters : ranking.clusters[c].internal_ranking_complete
    THEN "global"
    ELSE ranking.phase

\* compare(left_id, right_id, result)
compare(left_id, right_id, res, written, ticks) ==
    LET ranking == persistent.ranking
        ratings == ranking.ratings
        record == [left_id |-> left_id, right_id |-> right_id, result |-> res,
                   left_mu_before |-> ratings[left_id].mu,
                   left_sigma_before |-> ratings[left_id].sigma,
                   right_mu_before |-> ratings[right_id].mu,
                   right_sigma_before |-> ratings[right_id].sigma,
                   timestamp |-> clock]
        ranking1 == [ranking EXCEPT
                        !.ratings = compared_ratings(ratings, left_id, right_id, res),
                        !.comparison_history = push_trimmed(@, record),
                        !.total_comparisons = @ + 1]
        ranking2 == [ranking1 EXCEPT !.phase = next_phase(ranking1)]
    IN  /\ call' = [op |-> "compare", left_id |-> left_id, right_id |-> right_id, result |-> res]
        /\ IF ~ranking.initialized
           THEN /\ result' = Err("Ranking not initialized")
                /\ UNCHANGED <<persistent, disk, faults, shadow, clock>>
           ELSE IF left_id \notin DOMAIN ratings
           THEN /\ result' = Err("Left photo not found")
                /\ UNCHANGED <<persistent, disk, faults, shadow, clock>>
           ELSE IF right_id \notin DOMAIN ratings
           THEN /\ result' = Err("Right photo not found")
                /\ UNCHANGED <<persistent, disk, faults, shadow, clock>>
           ELSE /\ persistent' = [persistent EXCEPT !.ranking = ranking2]
                /\ shadow' = push_trimmed(shadow,
                                [ratings |-> ratings,
                                 total_comparisons |-> ranking.total_comparisons])
                /\ clock' = clock + ticks
                /\ disk' = save(persistent', written)
                /\ faults' = written_or_fault(written)
                /\ result' = IF written THEN Ok ELSE Err("io")
        /\ UNCHANGED <<photo_hashes, image_records, pending_indices, files>>

\* a restore that leaves matches_played as it is
restore_side_keeps_matches(ratings, id, mu_before, sigma_before, res) ==
    IF id \in DOMAIN ratings
    THEN [ratings EXCEPT ![id].mu = mu_before, ![id].sigma = sigma_before]
    ELSE ratings

\* the rating undo_ranking writes back for one side of the popped record
restore_side(ratings, id, mu_before, sigma_before, res) ==
    IF id \in DOMAIN ratings
    THEN [ratings EXCEPT ![id] =
            [mu |-> mu_before, sigma |-> sigma_before,
             matches_played |-> IF res # "skip" THEN saturating_sub(@.matches_played, 1)
                                ELSE @.matches_played]]
    ELSE ratings

\* an undo that leaves the counter alone when the record is a skip
undone_total_unless_skip(total_comparisons, record) ==
    IF record.result # "skip" THEN saturating_sub(total_comparisons, 1) ELSE total_comparisons

\* total_comparisons after undo_ranking popped `record`
undone_total(total_comparisons, record) == saturating_sub(total_comparisons, 1)

\* undo_ranking
undo_ranking(written) ==
    LET ranking == persistent.ranking
        record == Last(ranking.comparison_history)
        r1 == restore_side(ranking.ratings, record.left_id, record.left_mu_before,
                           record.left_sigma_before, record.result)
        r2 == restore_side(r1, record.right_id, record.right_mu_before,
                           record.right_sigma_before, record.result)
    IN  /\ call' = [op |-> "undo_ranking"]
        /\ IF ranking.comparison_history = <<>>
           THEN /\ result' = nothing_to_undo
                /\ UNCHANGED <<persistent, disk, faults, shadow>>
           ELSE /\ persistent' = [persistent EXCEPT
                                    !.ranking.comparison_history = pop(@),
                                    !.ranking.ratings = r2,
                                    !.ranking.total_comparisons = undone_total(@, record)]
                /\ shadow' = pop(shadow)
                /\ disk' = save(persistent', written)
                /\ faults' = written_or_fault(written)
                /\ result' = IF written
                             THEN UndoResult(TRUE, "Undone comparison: " \o record.result, None)
                             ELSE Err("io")
        /\ UNCHANGED <<photo_hashes, image_records, pending_indices, files, clock>>

\* get_pair: it reads the state and answers with one of the pairs select_pair
\* can return
get_pair(pair) ==
    /\ call' = [op |-> "get_pair"]
    /\ IF ~persistent.ranking.initialized
       THEN result' = [ok |-> TRUE, err |-> "", done |-> FALSE, error |-> TRUE,
                       message |-> "Ranking not initialized", pair |-> Nothing]
       ELSE /\ pair \in select_pair(persistent.ranking)
            /\ result' = IF pair = Nothing
                         THEN [ok |-> TRUE, err |-> "", done |-> TRUE, error |-> FALSE,
                               message |-> "No more pairs available", pair |-> Nothing]
                         ELSE [ok |-> TRUE, err |-> "", done |-> FALSE, error |-> FALSE,
                               message |-> None, pair |-> pair]
    /\ UNCHANGED <<persistent, photo_hashes, image_records, pending_indices, files,
                   disk, clock, faults, shadow>>

\* (x * 10.0).round() / 10.0 for a number x held in units of 1/scale: to the
\* nearest tenth, halves away from zero.  With scale 1 (whole numbers) the
\* rounding changes nothing.
round_tenth(x, scale) ==
    IF scale % 10 # 0 THEN x
    ELSE LET step == scale \div 10
             magnitude == ((2 * Abs(x) + step) \div (2 * step)) * step
         IN  IF x < 0 THEN 0 - magnitude ELSE magnitude

\* board is a result of the stable sort of get_leaderboard for some iteration
\* order of ratings: the sort key is the score field of the entries, which
\* is the conservative score rounded to one decimal
leaderboard_sorted(ratings, board, scale) ==
    LET score(id) == round_tenth(get_conservative_score(ratings[id].mu, ratings[id].sigma),
                                 scale)
    IN  /\ board \in Orders(DOMAIN ratings)
        /\ \A i, j \in 1..Len(board) : i < j => score(board[i]) >= score(board[j])

\* get_leaderboard(limit): board is one descending order of the rated photos
\* by conservative score, cut to limit entries
get_leaderboard(limit, board) ==
    LET ratings == persistent.ranking.ratings
    IN  /\ call' = [op |-> "get_leaderboard", limit |-> limit]
        /\ IF ~persistent.ranking.initialized
           THEN result' = [ok |-> TRUE, err |-> "", board |-> <<>>]
           ELSE /\ leaderboard_sorted(ratings, board, 1)
                /\ result' = [ok |-> TRUE, err |-> "",
                              board |-> SubSeq(board, 1, Min(limit, Len(board)))]
        /\ UNCHANGED <<persistent, photo_hashes, image_records, pending_indices, files,
                       disk, clock, faults, shadow>>

\* ------------------------------------------------------------------------
\* image_manager.rs and commands.rs : triage
\* ------------------------------------------------------------------------

\* the images of the one source folder, in the order a scan lists them; the
\* id of an image is derived from its path, so its name stands for it
SourceImages == <<"a", "b">>

\* ImageRecord::full_path
full_path(record) == <<record.source_folder, record.relative_path>>

\* ImageRecord::filename
filename(record) == record.relative_path

\* the suffixes get_destination_path tries on a collision
Suffixes == <<"_1", "_2", "_3">>

RECURSIVE free_path(_, _, _, _)
free_path(fs, filename_, destination, counter) ==
    LET dest_path == <<destination, filename_ \o Suffixes[counter]>>
    IN  IF dest_path \in fs /\ counter < Len(Suffixes)
        THEN free_path(fs, filename_, destination, counter + 1)
        ELSE dest_path

\* get_destination_path
get_destination_path(fs, filename_, destination) ==
    IF <<destination, filename_>> \notin fs
    THEN <<destination, filename_>>
    ELSE free_path(fs, filename_, destination, 1)

\* how a move of one file can end: renamed; nothing done; or copied to the
\* target with the removal of the original failing
MoveOutcomes == {"moved", "failed", "copied"}

\* the file system after fs::rename / fs::copy + fs::remove_file
moved_files_of(fs, from, to, outcome) ==
    CASE outcome = "moved" -> (fs \ {from}) \cup {to}
      [] outcome = "copied" -> fs \cup {to}
      [] OTHER -> fs

\* move_image: ok, the new path (None for a skip), and the files afterwards
move_image(fs, record, decision, outcome) ==
    LET destination == IF decision = "accepted" THEN "accepted" ELSE "rejected"
        dest_path == get_destination_path(fs, filename(record), destination)
    IN  IF decision = "skipped" THEN [ok |-> TRUE, path |-> Nothing, files |-> fs]
        ELSE IF full_path(record) \notin fs THEN [ok |-> FALSE, path |-> Nothing, files |-> fs]
        ELSE [ok |-> outcome = "moved", path |-> dest_path,
              files |-> moved_files_of(fs, full_path(record), dest_path, outcome)]

\* a move back that reports success and leaves the file where it is
undo_move_leaving_file(fs, moved_path, original_path, outcome) ==
    IF moved_path \notin fs THEN [ok |-> FALSE, files |-> fs]
    ELSE [ok |-> outcome = "moved", files |-> fs]

\* undo_move
undo_move(fs, moved_path, original_path, outcome) ==
    IF moved_path \notin fs THEN [ok |-> FALSE, files |-> fs]
    ELSE [ok |-> outcome = "moved",
          files |-> moved_files_of(fs, moved_path, original_path, outcome)]

RECURSIVE pending_from(_, _, _, _)
pending_from(fs, records, decisions, i) ==
    IF i > Len(records) THEN <<>>
    ELSE LET id == records[i].id
             undecided == id \notin DOMAIN decisions
                          \/ decisions[id] \in {"pending", "skipped"}
             rest == pending_from(fs, records, decisions, i + 1)
         IN  IF undecided /\ full_path(records[i]) \in fs THEN <<i>> \o rest ELSE rest

\* build_pending_indices
build_pending_indices(fs, records, decisions) == pending_from(fs, records, decisions, 1)

\* get_current_record: the record to display, Nothing when nothing is pending;
\* current_index counts from 0, the entries of pending_indices from 1
get_current_record(records, pending, current_index) ==
    IF pending = <<>> THEN Nothing
    ELSE LET idx == IF current_index >= Len(pending) THEN 0 ELSE current_index
         IN  records[pending[idx + 1]]

RECURSIVE scan_from(_, _)
scan_from(fs, i) ==
    IF i > Len(SourceImages) THEN <<>>
    ELSE LET record == [id |-> SourceImages[i], source_folder |-> "source",
                        relative_path |-> SourceImages[i]]
         IN  IF full_path(record) \in fs THEN <<record>> \o scan_from(fs, i + 1)
             ELSE scan_from(fs, i + 1)

\* scan_source_folders for the one source folder
scan_source_folders(fs) == scan_from(fs, 1)

\* initialize_app with a valid configuration
initialize_app ==
    /\ call' = [op |-> "initialize_app"]
    /\ result' = Ok
    /\ image_records' = scan_source_folders(files)
    /\ pending_indices' = build_pending_indices(files, image_records', persistent.decisions)
    /\ UNCHANGED <<persistent, photo_hashes, files, disk, clock, faults, shadow>>

\* set_mode
set_mode(mode, written) ==
    /\ call' = [op |-> "set_mode", mode |-> mode]
    /\ IF mode \notin {"triage", "ranking"}
       THEN /\ result' = Err("Invalid mode")
            /\ UNCHANGED <<persistent, disk, faults>>
       ELSE /\ persistent' = [persistent EXCEPT !.mode = mode]
            /\ disk' = save(persistent', written)
            /\ faults' = written_or_fault(written)
            /\ result' = IF written THEN Ok ELSE Err("io")
    /\ UNCHANGED <<photo_hashes, image_records, pending_indices, files, clock, shadow>>

\* the decision a swipe direction stands for
decision_of(direction) ==
    CASE direction = "left" -> "rejected"
      [] direction = "right" -> "accepted"
      [] direction = "down" -> "skipped"
      [] OTHER -> None

\* the positions of image_records that hold image_id
record_positions(image_id) == {i \in 1..Len(image_records) : image_records[i].id = image_id}

\* swipe(image_id, direction)
swipe(image_id, direction, outcome, written) ==
    LET found == record_positions(image_id)
        record == image_records[CHOOSE i \in found : \A j \in found : i <= j]
        decision == decision_of(direction)
        old_decision == IF image_id \in DOMAIN persistent.decisions
                        THEN persistent.decisions[image_id] ELSE "pending"
        moved == move_image(files, record, decision, outcome)
        p1 == IF moved.path # Nothing
              THEN [persistent EXCEPT
                      !.original_paths = Put(@, image_id, full_path(record)),
                      !.moved_files = Put(@, image_id, moved.path)]
              ELSE persistent
        p2 == [p1 EXCEPT
                 !.decisions = Put(@, image_id, decision),
                 !.history = push_trimmed(@, <<image_id, old_decision, decision>>)]
    IN  /\ call' = [op |-> "swipe", image_id |-> image_id, direction |-> direction]
        /\ IF found = {}
           THEN /\ result' = Err("Image not found")
                /\ UNCHANGED <<persistent, pending_indices, files, disk, faults>>
           ELSE IF decision = None
           THEN /\ result' = Err("Invalid direction")
                /\ UNCHANGED <<persistent, pending_indices, files, disk, faults>>
           ELSE IF ~moved.ok
           THEN /\ result' = Err("move")
                /\ files' = moved.files
                /\ UNCHANGED <<persistent, pending_indices, disk, faults>>
           ELSE /\ files' = moved.files
                /\ persistent' = p2
                /\ pending_indices' = build_pending_indices(files', image_records, p2.decisions)
                /\ disk' = save(persistent', written)
                /\ faults' = written_or_fault(written)
                /\ result' = IF written
                             THEN [ok |-> TRUE, err |-> "", success |-> TRUE, decision |-> decision]
                             ELSE Err("io")
        /\ UNCHANGED <<photo_hashes, image_records, clock, shadow>>

\* triage undo
undo(outcome, written) ==
    LET entry == Last(persistent.history)
        image_id == entry[1]
        old_decision == entry[2]
        new_decision == entry[3]
        popped == [persistent EXCEPT !.history = pop(@)]
        has_move == /\ new_decision \in {"accepted", "rejected"}
                    /\ image_id \in DOMAIN persistent.moved_files
                    /\ image_id \in DOMAIN persistent.original_paths
        back == undo_move(files, persistent.moved_files[image_id],
                          persistent.original_paths[image_id], outcome)
        p1 == IF has_move
              THEN [popped EXCEPT !.moved_files = Remove(@, image_id),
                                  !.original_paths = Remove(@, image_id)]
              ELSE popped
        p2 == [p1 EXCEPT !.decisions = IF old_decision = "pending"
                                       THEN Remove(@, image_id)
                                       ELSE Put(@, image_id, old_decision)]
        fs == IF has_move THEN back.files ELSE files
        pending == build_pending_indices(fs, image_records, p2.decisions)
        hits == {i \in 1..Len(pending) : image_records[pending[i]].id = image_id}
        p3 == IF hits # {}
              THEN [p2 EXCEPT !.current_index = (CHOOSE i \in hits : \A j \in hits : i <= j) - 1]
              ELSE p2
    IN  /\ call' = [op |-> "undo"]
        /\ IF persistent.history = <<>>
           THEN /\ result' = nothing_to_undo
                /\ UNCHANGED <<persistent, pending_indices, files, disk, faults>>
           ELSE IF has_move /\ ~back.ok
           THEN /\ result' = Err("move")
                /\ persistent' = popped
                /\ files' = back.files
                /\ UNCHANGED <<pending_indices, disk, faults>>
           ELSE /\ files' = fs
                /\ persistent' = p3
                /\ pending_indices' = pending
                /\ disk' = save(persistent', written)
                /\ faults' = written_or_fault(written)
                /\ result' = IF written
                             THEN UndoResult(TRUE, "Undone: " \o new_decision \o " -> " \o old_decision,
                                             image_id)
                             ELSE Err("io")
        /\ UNCHANGED <<photo_hashes, image_records, clock, shadow>>

\* ------------------------------------------------------------------------
\* the specifications
\* ------------------------------------------------------------------------

\* the state after AppState::new() with no files on disk
Init ==
    /\ persistent = PersistentState_load
    /\ photo_hashes = <<>>
    /\ image_records = <<>>
    /\ pending_indices = <<>>
    /\ files = {<<"source", SourceImages[i]>> : i \in 1..Len(SourceImages)}
    /\ disk = PersistentState_load
    /\ clock = 1
    /\ faults = 0
    /\ call = [op |-> "new"]
    /\ result = Ok
    /\ shadow = <<>>

\* how many comparisons are in total_comparisons at most
MaxComparisons == 1

\* the outcome strings the front end sends
Outcomes == {"left", "right", "tie", "skip"}

\* the arguments of compare: every pair of distinct rated photos and one photo
\* against itself, with every outcome, and an id that is not rated on either
\* side
CompareInputs ==
    LET rated == DOMAIN persistent.ranking.ratings
    IN  {in \in rated \X rated \X Outcomes : in[1] # in[2] \/ in[1] = "p1"}
        \cup {<<UnknownPhoto, "p1", "left">>, <<"p1", UnknownPhoto, "left">>}

\* a short session: every write succeeds and all commands fall within one
\* tick of the clock
InitRanking ==
    \E photos \in Scans :
        \E order \in Orders((DOMAIN photo_hashes) \cup photos) :
            init_ranking(photos, {}, order, TRUE, TRUE)

Compare ==
    /\ persistent.ranking.total_comparisons < MaxComparisons
    /\ \E in \in CompareInputs : compare(in[1], in[2], in[3], TRUE, 0)

UndoRanking == undo_ranking(TRUE)

\* the answers a call of get_pair is offered to choose from
PairChoices == (PurePhotos \X PurePhotos) \cup {Nothing}

GetPair ==
    \E pair \in PairChoices :
        /\ ~persistent.ranking.initialized => pair = Nothing
        /\ get_pair(pair)

\* the limit the front end asks the leaderboard for
LeaderboardLimit == 2

GetLeaderboard ==
    \E board \in Orders(DOMAIN persistent.ranking.ratings) :
        get_leaderboard(LeaderboardLimit, board)

Next == InitRanking \/ Compare \/ UndoRanking \/ GetPair \/ GetLeaderboard

Spec == Init /\ [][Next]_vars

\* ------------------------------------------------------------------------
\* a long session: one ranking episode in which the same pair is judged a
\* tie HISTORY_CAP times, then LedgerTail more comparisons are made, and
\* finally everything is undone.  The clock ticks once per comparison.
\* ------------------------------------------------------------------------

\* how many comparisons follow the HISTORY_CAP ties
LedgerTail == 1

\* the arguments of the comparisons that follow the ties
TailInputs == Photos \X Photos \X Outcomes

LedgerInit ==
    /\ ~persistent.ranking.initialized
    /\ \E order \in Orders(Photos) : init_ranking(Photos, {}, order, TRUE, TRUE)

LedgerCompare ==
    /\ persistent.ranking.initialized
    /\ call.op # "undo_ranking"
    /\ clock <= HISTORY_CAP + LedgerTail
    /\ \E in \in (IF clock <= HISTORY_CAP THEN {<<"p1", "p2", "tie">>} ELSE TailInputs) :
          compare(in[1], in[2], in[3], TRUE, 1)

LedgerUndo ==
    /\ clock > HISTORY_CAP
    /\ undo_ranking(TRUE)

NextLedger == LedgerInit \/ LedgerCompare \/ LedgerUndo

SpecLedger == Init /\ [][NextLedger]_vars

\* ------------------------------------------------------------------------
\* a session in which writes of the state file and moves of image files can
\* fail: triage of the source images, a mode switch, and one ranking episode
\* ------------------------------------------------------------------------

\* how many writes fail at most
MaxWriteFaults == 1

\* how many triage decisions are in the history at most
MaxSwipes == 1

\* whether the next write succeeds
Writes == IF faults < MaxWriteFaults THEN BOOLEAN ELSE {TRUE}

IOInitializeApp == image_records = <<>> /\ initialize_app

IOSetMode == \E mode \in {"ranking", "slides"} : \E written \in Writes : set_mode(mode, written)

IOSwipe ==
    /\ Len(persistent.history) < MaxSwipes
    /\ \E in \in {<<"a", "right">>, <<"b", "down">>, <<"a", "up">>, <<"z", "left">>} :
         \E outcome \in {"moved", "failed"} : \E written \in Writes :
            swipe(in[1], in[2], outcome, written)

IOUndo == \E outcome \in {"moved", "failed"} : \E written \in Writes : undo(outcome, written)

IOInitRanking ==
    /\ ~persistent.ranking.initialized
    /\ \E order \in Orders({"p1", "p3"}) : \E written \in Writes :
           init_ranking({"p1", "p3"}, {}, order, TRUE, written)

IOCompare ==
    /\ persistent.ranking.initialized
    /\ persistent.ranking.total_comparisons < MaxComparisons
    /\ \E written \in Writes : \E res \in {"left", "skip"} :
          compare("p1", "p3", res, written, 0)

IOUndoRanking == \E written \in Writes : undo_ranking(written)

NextIO ==
    \/ IOInitializeApp
    \/ IOSetMode
    \/ IOSwipe
    \/ IOUndo
    \/ IOInitRanking
    \/ IOCompare
    \/ IOUndoRanking

SpecIO == Init /\ [][NextIO]_vars

\* ------------------------------------------------------------------------
\* a long triage session: the first image is skipped again and again until
\* the decision history is TriageTail entries short of overflowing, then
\* TriageTail swipes of any image in any direction follow; undo at any time.
\* Moves of files can fail.
\* ------------------------------------------------------------------------

\* how many freely chosen swipes follow the scripted skips
TriageTail == 2

TriageSwipe ==
    /\ image_records # <<>>
    /\ IF Len(persistent.history) <= HISTORY_CAP - TriageTail
       THEN swipe("a", "down", "moved", TRUE)
       ELSE /\ persistent.history[1][2] = "pending"
            /\ \E in \in {"a", "b"} \X {"left", "right", "down", "up"} :
               \E outcome \in {"moved", "failed"} : swipe(in[1], in[2], outcome, TRUE)

\* the image on display, as the triage view asks for it
get_current_image ==
    LET count(d) == Cardinality({id \in DOMAIN persistent.decisions : persistent.decisions[id] = d})
        processed == count("accepted") + count("rejected") + count("skipped")
        stats == [total |-> Len(image_records),
                  pending |-> IF Len(image_records) > processed
                              THEN Len(image_records) - processed ELSE 0,
                  accepted |-> count("accepted"), rejected |-> count("rejected"),
                  skipped |-> count("skipped"), processed |-> processed]
        record == get_current_record(image_records, pending_indices, persistent.current_index)
    IN  /\ call' = [op |-> "get_current_image"]
        /\ result' = IF record # Nothing
                     THEN [ok |-> TRUE, err |-> "", done |-> FALSE, id |-> record.id,
                           index |-> persistent.current_index,
                           total_pending |-> Len(pending_indices),
                           total_images |-> Len(image_records),
                           filename |-> filename(record), file_path |-> full_path(record),
                           stats |-> stats, message |-> None]
                     ELSE [ok |-> TRUE, err |-> "", done |-> TRUE, id |-> None, index |-> 0,
                           total_pending |-> 0, total_images |-> Len(image_records),
                           filename |-> None, file_path |-> None,
                           stats |-> stats, message |-> "All images have been triaged!"]
        /\ UNCHANGED <<persistent, photo_hashes, image_records, pending_indices, files, disk,
                       clock, faults, shadow>>

NextTriage == IOInitializeApp \/ TriageSwipe \/ IOUndo \/ get_current_image

SpecTriage == Init /\ [][NextTriage]_vars

\* ------------------------------------------------------------------------
\* a ranking session with inputs off the expected path: an outcome the
\* front end does not send, and a photo whose image does not decode
\* ------------------------------------------------------------------------

\* the outcome strings compare is called with
EdgeOutcomes == Outcomes \cup {"up"}

EdgeInitRanking ==
    \E photos \in Scans :
        \E undecodable \in SUBSET (photos \cap Undecodable) :
            \E order \in Orders((DOMAIN photo_hashes) \cup (photos \ undecodable)) :
                init_ranking(photos, undecodable, order, TRUE, TRUE)

EdgeCompare ==
    /\ persistent.ranking.total_comparisons < MaxComparisons
    /\ \E left_id \in DOMAIN persistent.ranking.ratings :
       \E right_id \in (DOMAIN persistent.ranking.ratings) \ {left_id} :
       \E res \in EdgeOutcomes :
          compare(left_id, right_id, res, TRUE, 0)

NextEdge ==
    \/ EdgeInitRanking
    \/ EdgeCompare
    \/ GetPair

SpecEdge == Init /\ [][NextEdge]_vars

\* ------------------------------------------------------------------------
\* the ranking commands called from several threads at once.  call[t] is the
\* frame of thread t: the command it is in, its position, its arguments and
\* locals; result[t] is what its last command returned.  A thread holds the
\* guard of a Mutex from the lock() to the end of the function.
\* ------------------------------------------------------------------------

Threads == {"t1", "t2"}

Idle == [op |-> "none", pc |-> "idle"]

\* the positions inside a command after state.persistent.lock()
HoldsPersistent ==
    {"locked", "cloned", "winner_written", "rated", "popped", "restored",
     "pair_read", "scanned", "resetting"}

\* the commands that begin with state.config.lock()
LocksConfig == {"get_pair", "get_leaderboard", "init_ranking"}

\* a lock() that never waits
lock_not_exclusive(t) == TRUE

\* state.persistent.lock() returns to t: no other thread holds the guard
lock_persistent(t) == \A u \in Threads \ {t} : call[u].pc \notin HoldsPersistent

\* state.config.lock() returns to t
lock_config(t) ==
    \A u \in Threads \ {t} : ~(call[u].pc # "idle" /\ call[u].op \in LocksConfig)

\* thread t moves on inside its command
goto(t, frame) ==
    /\ call' = [call EXCEPT ![t] = frame]
    /\ UNCHANGED result

\* thread t returns value; its guards are dropped
return(t, value) ==
    /\ call' = [call EXCEPT ![t] = Idle]
    /\ result' = [result EXCEPT ![t] = value]

LockInit ==
    /\ persistent = PersistentState_load
    /\ photo_hashes = <<>>
    /\ image_records = <<>>
    /\ pending_indices = <<>>
    /\ files = {}
    /\ disk = PersistentState_load
    /\ clock = 1
    /\ faults = 0
    /\ shadow = <<>>
    /\ call = [t \in Threads |-> Idle]
    /\ result = [t \in Threads |-> Ok]

\* the arguments the threads call compare with
LockCompareInputs == {<<"p1", "p3", "left">>, <<"p3", "p1", "skip">>, <<UnknownPhoto, "p1", "left">>}

\* compare in thread t, statement by statement
LockCompare(t) ==
    LET frame == call[t]
        ranking == persistent.ranking
        ratings == ranking.ratings
        left_first == frame.result = "left" \/ frame.result = "tie"
        upd == IF left_first
               THEN glicko_update(frame.left.mu, frame.left.sigma,
                                  frame.right.mu, frame.right.sigma, frame.result = "tie")
               ELSE glicko_update(frame.right.mu, frame.right.sigma,
                                  frame.left.mu, frame.left.sigma, frame.result = "tie")
        winner_id == IF left_first THEN frame.left_id ELSE frame.right_id
        loser_id == IF left_first THEN frame.right_id ELSE frame.left_id
        ranking1 == [ranking EXCEPT
                        !.comparison_history = push_trimmed(@, frame.record),
                        !.total_comparisons = @ + 1]
    IN  \/ /\ frame.pc = "idle"
           /\ ranking.total_comparisons < MaxComparisons
           /\ lock_persistent(t)
           /\ \E in \in LockCompareInputs :
                 goto(t, [op |-> "compare", pc |-> "locked", left_id |-> in[1],
                          right_id |-> in[2], result |-> in[3]])
           /\ UNCHANGED <<persistent, disk>>
        \/ /\ frame.op = "compare" /\ frame.pc = "locked"
           /\ IF ~ranking.initialized
              THEN return(t, Err("Ranking not initialized"))
              ELSE IF frame.left_id \notin DOMAIN ratings
              THEN return(t, Err("Left photo not found"))
              ELSE IF frame.right_id \notin DOMAIN ratings
              THEN return(t, Err("Right photo not found"))
              ELSE goto(t, [frame EXCEPT !.pc = "cloned"] @@
                           [left |-> ratings[frame.left_id],
                            right |-> ratings[frame.right_id],
                            record |-> [left_id |-> frame.left_id,
                                        right_id |-> frame.right_id,
                                        result |-> frame.result,
                                        left_mu_before |-> ratings[frame.left_id].mu,
                                        left_sigma_before |-> ratings[frame.left_id].sigma,
                                        right_mu_before |-> ratings[frame.right_id].mu,
                                        right_sigma_before |-> ratings[frame.right_id].sigma,
                                        timestamp |-> clock]])
           /\ UNCHANGED <<persistent, disk>>
        \/ /\ frame.op = "compare" /\ frame.pc = "cloned" /\ frame.result # "skip"
           /\ persistent' = [persistent EXCEPT
                                !.ranking.ratings[winner_id].mu = upd[1][1],
                                !.ranking.ratings[winner_id].sigma = upd[1][2]]
           /\ goto(t, [frame EXCEPT !.pc = "winner_written"])
           /\ UNCHANGED disk
        \/ /\ frame.op = "compare" /\ frame.pc = "winner_written"
           /\ persistent' =
                 [persistent EXCEPT
                     !.ranking.ratings =
                         [[[@ EXCEPT ![loser_id].mu = upd[2][1],
                                     ![loser_id].sigma = upd[2][2]]
                             EXCEPT ![frame.left_id].matches_played = @ + 1]
                             EXCEPT ![frame.right_id].matches_played = @ + 1]]
           /\ goto(t, [frame EXCEPT !.pc = "rated"])
           /\ UNCHANGED disk
        \/ /\ frame.op = "compare"
           /\ frame.pc = "rated" \/ (frame.pc = "cloned" /\ frame.result = "skip")
           /\ persistent' = [persistent EXCEPT
                                !.ranking = [ranking1 EXCEPT !.phase = next_phase(ranking1)]]
           /\ disk' = save(persistent', TRUE)
           /\ return(t, [ok |-> TRUE, err |-> "", op |-> "compare",
                         left_id |-> frame.left_id, right_id |-> frame.right_id,
                         result |-> frame.result])

\* undo_ranking in thread t
LockUndoRanking(t) ==
    LET frame == call[t]
        ranking == persistent.ranking
        record == frame.record
        r1 == restore_side(ranking.ratings, record.left_id, record.left_mu_before,
                           record.left_sigma_before, record.result)
    IN  \/ /\ frame.pc = "idle"
           /\ lock_persistent(t)
           /\ goto(t, [op |-> "undo_ranking", pc |-> "locked"])
           /\ UNCHANGED <<persistent, disk>>
        \/ /\ frame.op = "undo_ranking" /\ frame.pc = "locked"
           /\ IF ranking.comparison_history = <<>>
              THEN /\ return(t, nothing_to_undo)
                   /\ UNCHANGED <<persistent, disk>>
              ELSE /\ persistent' = [persistent EXCEPT !.ranking.comparison_history = pop(@)]
                   /\ goto(t, [frame EXCEPT !.pc = "popped"] @@
                              [record |-> Last(ranking.comparison_history)])
                   /\ UNCHANGED disk
        \/ /\ frame.op = "undo_ranking" /\ frame.pc = "popped"
           /\ persistent' =
                 [persistent EXCEPT
                     !.ranking.ratings =
                         restore_side(r1, record.right_id, record.right_mu_before,
                                      record.right_sigma_before, record.result)]
           /\ goto(t, [frame EXCEPT !.pc = "restored"])
           /\ UNCHANGED disk
        \/ /\ frame.op = "undo_ranking" /\ frame.pc = "restored"
           /\ persistent' = [persistent EXCEPT
                                !.ranking.total_comparisons = undone_total(@, record)]
           /\ disk' = save(persistent', TRUE)
           /\ return(t, UndoResult(TRUE, "Undone comparison: " \o record.result, None))

\* get_pair in thread t: the pair and its two ratings are read before the scan
\* of the accepted folder, the statistics after it
LockGetPair(t) ==
    LET frame == call[t]
        ranking == persistent.ranking
    IN  /\ UNCHANGED <<persistent, disk>>
        /\ \/ /\ frame.pc = "idle"
              /\ lock_config(t)
              /\ goto(t, [op |-> "get_pair", pc |-> "config_locked"])
           \/ /\ frame.op = "get_pair" /\ frame.pc = "config_locked"
              /\ lock_persistent(t)
              /\ goto(t, [frame EXCEPT !.pc = "locked"])
           \/ /\ frame.op = "get_pair" /\ frame.pc = "locked"
              /\ IF ~ranking.initialized
                 THEN return(t, [ok |-> TRUE, err |-> "", op |-> "get_pair", done |-> FALSE,
                                 error |-> TRUE, pair |-> Nothing])
                 ELSE \E pair \in select_pair(ranking) :
                         IF pair = Nothing
                         THEN return(t, [ok |-> TRUE, err |-> "", op |-> "get_pair",
                                         done |-> TRUE, error |-> FALSE, pair |-> Nothing,
                                         total_comparisons |-> ranking.total_comparisons])
                         ELSE goto(t, [frame EXCEPT !.pc = "pair_read"] @@
                                      [pair |-> pair,
                                       left_rating |-> ranking.ratings[pair[1]],
                                       right_rating |-> ranking.ratings[pair[2]]])
           \/ /\ frame.op = "get_pair" /\ frame.pc = "pair_read"
              /\ return(t, [ok |-> TRUE, err |-> "", op |-> "get_pair", done |-> FALSE,
                            error |-> FALSE, pair |-> frame.pair,
                            left |-> frame.left_rating, right |-> frame.right_rating,
                            total_comparisons |-> ranking.total_comparisons])

\* get_leaderboard in thread t
LockGetLeaderboard(t) ==
    LET frame == call[t]
        ratings == persistent.ranking.ratings
    IN  /\ UNCHANGED <<persistent, disk>>
        /\ \/ /\ frame.pc = "idle"
              /\ lock_config(t)
              /\ goto(t, [op |-> "get_leaderboard", pc |-> "config_locked"])
           \/ /\ frame.op = "get_leaderboard" /\ frame.pc = "config_locked"
              /\ lock_persistent(t)
              /\ goto(t, [frame EXCEPT !.pc = "locked"])
           \/ /\ frame.op = "get_leaderboard" /\ frame.pc = "locked"
              /\ IF ~persistent.ranking.initialized
                 THEN return(t, [ok |-> TRUE, err |-> "", op |-> "get_leaderboard",
                                 board |-> <<>>])
                 ELSE \E board \in Orders(DOMAIN ratings) :
                         /\ leaderboard_sorted(ratings, board, 1)
                         /\ return(t, [ok |-> TRUE, err |-> "", op |-> "get_leaderboard",
                                       board |-> [i \in 1..Min(LeaderboardLimit, Len(board)) |->
                                                     [id |-> board[i]] @@ ratings[board[i]]]])

\* the accepted folder while the threads run
LockScan == {"p1", "p3"}

\* init_ranking in thread t
LockInitRanking(t) ==
    LET frame == call[t]
        hashes == [id \in (DOMAIN photo_hashes) \cup LockScan |->
                      IF id \in DOMAIN photo_hashes THEN photo_hashes[id]
                      ELSE compute_dhash(id)]
        clusters == to_clusters(frame.clustered.clusters)
    IN  \/ /\ frame.pc = "idle"
           /\ lock_config(t)
           /\ goto(t, [op |-> "init_ranking", pc |-> "config_locked"])
           /\ UNCHANGED <<persistent, disk, photo_hashes>>
        \/ /\ frame.op = "init_ranking" /\ frame.pc = "config_locked"
           /\ lock_persistent(t)
           /\ goto(t, [frame EXCEPT !.pc = "locked"])
           /\ UNCHANGED <<persistent, disk, photo_hashes>>
        \/ /\ frame.op = "init_ranking" /\ frame.pc = "locked"
           /\ photo_hashes' = hashes
           /\ \E order \in Orders(DOMAIN hashes) :
                 goto(t, [frame EXCEPT !.pc = "scanned"] @@
                         [clustered |-> clustered_photos(hashes, order)])
           /\ UNCHANGED <<persistent, disk>>
        \/ /\ frame.op = "init_ranking" /\ frame.pc = "scanned"
           /\ persistent' = [persistent EXCEPT
                                !.ranking.initialized = TRUE,
                                !.ranking.ratings = initialize_ratings(LockScan)]
           /\ goto(t, [frame EXCEPT !.pc = "resetting"])
           /\ UNCHANGED <<disk, photo_hashes>>
        \/ /\ frame.op = "init_ranking" /\ frame.pc = "resetting"
           /\ persistent' = [persistent EXCEPT
                                !.ranking.clusters = clusters,
                                !.ranking.photo_to_cluster = frame.clustered.photo_to_cluster,
                                !.ranking.comparison_history = <<>>,
                                !.ranking.total_comparisons = 0,
                                !.ranking.phase = initial_phase(clusters),
                                !.ranking.photo_count = Cardinality(LockScan),
                                !.ranking.cluster_count = Cardinality(DOMAIN clusters)]
           /\ disk' = save(persistent', TRUE)
           /\ return(t, [ok |-> TRUE, err |-> "", op |-> "init_ranking"])
           /\ UNCHANGED photo_hashes

NextLock ==
    \E t \in Threads :
        /\ \/ LockCompare(t) /\ UNCHANGED photo_hashes
           \/ LockUndoRanking(t) /\ UNCHANGED photo_hashes
           \/ LockGetPair(t) /\ UNCHANGED photo_hashes
           \/ LockGetLeaderboard(t) /\ UNCHANGED photo_hashes
           \/ LockInitRanking(t)
        /\ UNCHANGED <<image_records, pending_indices, files, clock, faults, shadow>>

SpecLock == LockInit /\ [][NextLock]_vars

\* ------------------------------------------------------------------------
\* hamming_distance and cluster_photos on their own: the arguments are drawn
\* when the call is made, one step computes the result
\* ------------------------------------------------------------------------

\* the strings hamming_distance is called with: every string of up to three
\* characters over 0, 5, f and a character that is no hex digit (16), the
\* four-character strings over 0 and f, and three fingerprints
HexStrings ==
    UNION {[1..n -> {0, 5, 15, 16}] : n \in 0..3}
        \cup [1..4 -> {0, 15}] \cup {FpBase, FpNear, FpFar}

\* the hash caches cluster_photos is called with
HashCaches ==
    UNION {[ids -> {FpBase, FpNear, FpTen, FpEleven, FpFar, FpShort,
                    \* 64 characters that are no hex digits
                    [i \in 1..HASH_HEX_LEN |-> 16]}] : ids \in SUBSET Photos}

HashingInit ==
    /\ persistent = PersistentState_load
    /\ photo_hashes = <<>>
    /\ image_records = <<>>
    /\ pending_indices = <<>>
    /\ files = {}
    /\ disk = PersistentState_load
    /\ clock = 1
    /\ faults = 0
    /\ shadow = <<>>
    /\ result = Err("pending")
    /\ \/ \E hash1 \in HexStrings, hash2 \in HexStrings :
             call = [op |-> "hamming_distance", hash1 |-> hash1, hash2 |-> hash2]
       \/ \E hashes \in HashCaches :
             call = [op |-> "cluster_photos", photo_hashes |-> hashes]

HammingDistance ==
    /\ call.op = "hamming_distance"
    /\ result = Err("pending")
    /\ result' = [ok |-> TRUE, err |-> "",
                  value |-> hamming_distance(call.hash1, call.hash2)]
    /\ UNCHANGED <<persistent, photo_hashes, image_records, pending_indices, files,
                   disk, clock, faults, call, shadow>>

\* order: the order in which the HashMap hands out its entries in this run
ClusterPhotos ==
    /\ call.op = "cluster_photos"
    /\ result = Err("pending")
    /\ \E order \in Orders(DOMAIN call.photo_hashes) :
          result' = [ok |-> TRUE, err |-> "", order |-> order,
                     value |-> cluster_photos(call.photo_hashes, order)]
    /\ UNCHANGED <<persistent, photo_hashes, image_records, pending_indices, files,
                   disk, clock, faults, call, shadow>>

NextHashing ==
    \/ HammingDistance
    \/ ClusterPhotos

SpecHashing == HashingInit /\ [][NextHashing]_vars

\* ------------------------------------------------------------------------
\* the leaderboard and the functions of ranking.rs on their own: the
\* arguments are drawn when the call is made, one step computes the result
\* ------------------------------------------------------------------------

\* the cluster member lists drawn are one cluster of four, two pairs, a
\* triple and a single photo, a pair and two single photos; the ratings drawn
\* for a photo are those of a new photo, after one match, settled without a
\* match on record, and after three and two matches
PureInit ==
    LET ClusterLayouts ==
            {[c1 |-> <<"p1", "p2", "p3", "p4">>],
             [c1 |-> <<"p1", "p2">>, c2 |-> <<"p3", "p4">>],
             [c1 |-> <<"p2", "p1", "p3">>, c2 |-> <<"p4">>],
             [c1 |-> <<"p3", "p4">>, c2 |-> <<"p1">>, c3 |-> <<"p2">>]}
        RatingProfiles ==
            {[mu |-> 1500, sigma |-> 350, matches_played |-> 0],
             [mu |-> 1520, sigma |-> 350, matches_played |-> 1],
             [mu |-> 1480, sigma |-> 60, matches_played |-> 0],
             [mu |-> 1480, sigma |-> 120, matches_played |-> 3],
             [mu |-> 1600, sigma |-> 120, matches_played |-> 2]}
        \* the photos of the rankings drawn for the global selection, and
        \* the rating of the i-th of them
        GlobalIds ==
            <<"g001", "g002", "g003", "g004", "g005", "g006", "g007", "g008", "g009", "g010",
              "g011", "g012", "g013", "g014", "g015", "g016", "g017", "g018", "g019", "g020",
              "g021", "g022", "g023", "g024", "g025", "g026", "g027", "g028", "g029", "g030",
              "g031", "g032", "g033", "g034", "g035", "g036", "g037", "g038", "g039", "g040",
              "g041", "g042", "g043", "g044", "g045", "g046", "g047", "g048", "g049", "g050",
              "g051", "g052", "g053", "g054", "g055", "g056", "g057", "g058", "g059", "g060",
              "g061", "g062", "g063", "g064", "g065", "g066", "g067", "g068", "g069", "g070",
              "g071", "g072", "g073", "g074", "g075", "g076", "g077", "g078", "g079", "g080",
              "g081", "g082", "g083", "g084", "g085", "g086", "g087", "g088", "g089", "g090",
              "g091", "g092", "g093", "g094", "g095", "g096", "g097", "g098", "g099", "g100",
              "g101", "g102", "g103", "g104", "g105", "g106", "g107", "g108", "g109", "g110">>
        index(id) == CHOOSE i \in 1..Len(GlobalIds) : GlobalIds[i] = id
        sigma_of(shape, i) ==
            CASE shape = "distinct" -> DEFAULT_SIGMA - i
              [] shape = "levels" -> IF i <= 5 THEN DEFAULT_SIGMA ELSE 200
              [] OTHER -> DEFAULT_SIGMA
        mu_of(shape, i) == IF shape = "distinct" THEN DEFAULT_MU + 10 * i ELSE DEFAULT_MU
    IN
        /\ persistent = PersistentState_load
        /\ photo_hashes = <<>>
        /\ image_records = <<>>
        /\ pending_indices = <<>>
        /\ files = {}
        /\ disk = PersistentState_load
        /\ clock = 1
        /\ faults = 0
        /\ shadow = <<>>
        /\ result = Err("pending")
        /\ \/ \E layout \in ClusterLayouts : \E complete \in [DOMAIN layout -> BOOLEAN] :
              \E rated \in {PurePhotos, PurePhotos \ {"p2"}} :
                 \E ratings \in [rated -> RatingProfiles] :
                    call = [op |-> "select_intra_cluster_pair", ratings |-> ratings,
                            clusters |-> [c \in DOMAIN layout |->
                                            [id |-> c, photo_ids |-> layout[c],
                                             representative_id |-> None,
                                             internal_ranking_complete |-> complete[c]]]]
           \/ \E members \in {<<"p1", "p2", "p3", "p4">>, <<"p2", "p1", "p3">>, <<"p3", "p4">>,
                              <<"p1">>} :
              \E complete \in BOOLEAN, representative \in {None, "p1"} :
                 \E rated \in {PurePhotos, PurePhotos \ {"p2"}, {"p4"}, {}} :
                    \E ratings \in [rated -> RatingProfiles] :
                       call = [op |-> "finalize_cluster", ratings |-> ratings,
                               cluster |-> [id |-> "c1", photo_ids |-> members,
                                            representative_id |-> representative,
                                            internal_ranking_complete |-> complete]]
           \/ \E n \in {0, 1, 2, 3, 12, 21, 22, 23, 110} :
              \E sigmas \in {"distinct", "levels", "equal"}, mus \in {"distinct", "equal"} :
                 /\ n = 110 => sigmas = "distinct" /\ mus = "distinct"
                 /\ call = [op |-> "select_global_pair",
                            ratings |-> [id \in {GlobalIds[i] : i \in 1..n} |->
                                            [mu |-> mu_of(mus, index(id)),
                                             sigma |-> sigma_of(sigmas, index(id)),
                                             matches_played |-> 0]]]
           \/ \E ids \in SUBSET Photos, limit \in {0, 1, 2, 4}, initialized \in BOOLEAN :
              \E mu \in [ids -> {99000, 100001, 100004, 100006}] :
                 \* ratings in hundredths of a point: sigma 50.00
                 call = [op |-> "get_leaderboard", initialized |-> initialized, limit |-> limit,
                         ratings |-> [id \in ids |->
                                         [mu |-> mu[id], sigma |-> 5000, matches_played |-> 0]]]

\* get_leaderboard on a ranking whose ratings are held in hundredths
Leaderboard ==
    /\ call.op = "get_leaderboard"
    /\ result = Err("pending")
    /\ IF ~call.initialized
       THEN result' = [ok |-> TRUE, err |-> "", board |-> <<>>]
       ELSE \E board \in Orders(DOMAIN call.ratings) :
               /\ leaderboard_sorted(call.ratings, board, 100)
               /\ result' = [ok |-> TRUE, err |-> "",
                             board |-> SubSeq(board, 1, Min(call.limit, Len(board)))]
    /\ UNCHANGED <<persistent, photo_hashes, image_records, pending_indices, files,
                   disk, clock, faults, call, shadow>>

\* select_intra_cluster_pair on drawn clusters and ratings
SelectIntraClusterPair ==
    /\ call.op = "select_intra_cluster_pair"
    /\ result = Err("pending")
    /\ \E pair \in select_intra_cluster_pair(call.clusters, call.ratings) :
          result' = [ok |-> TRUE, err |-> "", pair |-> pair]
    /\ UNCHANGED <<persistent, photo_hashes, image_records, pending_indices, files,
                   disk, clock, faults, call, shadow>>

\* select_global_pair on drawn ratings
SelectGlobalPair ==
    /\ call.op = "select_global_pair"
    /\ result = Err("pending")
    /\ \E pair \in select_global_pair(call.ratings) :
          result' = [ok |-> TRUE, err |-> "", pair |-> pair]
    /\ UNCHANGED <<persistent, photo_hashes, image_records, pending_indices, files,
                   disk, clock, faults, call, shadow>>

\* finalize_cluster on a drawn cluster and drawn ratings; the ratings are
\* borrowed for reading
FinalizeCluster ==
    /\ call.op = "finalize_cluster"
    /\ result = Err("pending")
    /\ result' = [ok |-> TRUE, err |-> "", cluster |-> finalize_cluster(call.cluster, call.ratings),
                  ratings |-> call.ratings]
    /\ UNCHANGED <<persistent, photo_hashes, image_records, pending_indices, files,
                   disk, clock, faults, call, shadow>>

NextPure ==
    \/ Leaderboard
    \/ FinalizeCluster
    \/ SelectGlobalPair
    \/ SelectIntraClusterPair

SpecPure == PureInit /\ [][NextPure]_vars

\* ------------------------------------------------------------------------
\* glicko_update on its own: the arguments are drawn when the call is made,
\* the one step computes the result
\* ------------------------------------------------------------------------

\* the ratings and deviations glicko_update is called with
GlickoMus == {1100, 1400, 1500, 1600, 1900}

GlickoSigmas == {50, 51, 80, 200, 350}

GlickoInit ==
    /\ persistent = PersistentState_load
    /\ photo_hashes = <<>>
    /\ image_records = <<>>
    /\ pending_indices = <<>>
    /\ files = {}
    /\ disk = PersistentState_load
    /\ clock = 1
    /\ faults = 0
    /\ shadow = <<>>
    /\ result = Err("pending")
    /\ \E winner_mu \in GlickoMus, loser_mu \in GlickoMus :
       \E winner_sigma \in GlickoSigmas, loser_sigma \in GlickoSigmas :
       \E is_tie \in BOOLEAN :
          call = [op |-> "glicko_update", winner_mu |-> winner_mu,
                  winner_sigma |-> winner_sigma, loser_mu |-> loser_mu,
                  loser_sigma |-> loser_sigma, is_tie |-> is_tie]

GlickoUpdate ==
    /\ result = Err("pending")
    /\ result' = [ok |-> TRUE, err |-> "",
                  value |-> glicko_update(call.winner_mu, call.winner_sigma,
                                          call.loser_mu, call.loser_sigma, call.is_tie)]
    /\ UNCHANGED <<persistent, photo_hashes, image_records, pending_indices, files,
                   disk, clock, faults, call, shadow>>

NextGlicko == GlickoUpdate

SpecGlicko == GlickoInit /\ [][NextGlicko]_vars

\* ------------------------------------------------------------------------
\* the mutexes of AppState: every command as the locks it takes, in the order
\* of its statements; two threads run commands a lock at a time
\* ------------------------------------------------------------------------

\* what each command does with the mutexes: lock one, drop one, or pass a
\* return statement that comes before its last lock
LockOrder ==
    LET lock(m) == <<"lock", m>>
        cfg == lock("config")
        per == lock("persistent")
        img == lock("image_records")
        pen == lock("pending_indices")
        ret == <<"return", "">>
    IN  [get_config |-> <<cfg>>,
         save_config |-> <<cfg, ret, img, per, pen>>,
         is_config_valid |-> <<cfg>>,
         initialize_app |-> <<cfg, ret, img, per, pen>>,
         get_current_image |-> <<cfg, per, img, pen>>,
         swipe |-> <<cfg, per, img, ret, pen>>,
         undo |-> <<per, img, ret, pen>>,
         get_preload_list |-> <<per, img, pen>>,
         get_mode |-> <<per>>,
         set_mode |-> <<per>>,
         get_ranking_stats |-> <<per>>,
         init_ranking |-> <<cfg, per, lock("photo_hashes")>>,
         get_pair |-> <<cfg, per>>,
         compare |-> <<per>>,
         undo_ranking |-> <<per>>,
         get_leaderboard |-> <<cfg, per>>,
         get_folders |-> <<cfg, per, img>>,
         add_source_folder |-> <<cfg, ret, img, per, pen>>,
         remove_source_folder |-> <<cfg, per, img, ret,
                                    <<"drop", "image_records">>, img,
                                    pen>>,
         set_destination_folder |-> <<cfg>>,
         get_photos_by_status |-> <<cfg, per>>]

\* command op in thread t: the call, its next statement on a mutex (lock()
\* returns when no other thread holds a guard of that mutex), and the return
\* that drops the guards
Locking(t, op) ==
    LET frame == call[t]
        steps == LockOrder[op]
        guards(u) ==
            IF call[u].pc # "locking" THEN {}
            ELSE LET done == LockOrder[call[u].op]
                     n == call[u].at
                 IN  {done[i][2] : i \in {i \in 1..n :
                                             /\ done[i][1] = "lock"
                                             /\ \A j \in (i + 1)..n :
                                                   done[j] # <<"drop", done[i][2]>>}}
        next == steps[frame.at + 1]
    IN  /\ \/ /\ frame.pc = "idle"
              /\ call' = [call EXCEPT ![t] = [op |-> op, pc |-> "locking", at |-> 0]]
              /\ UNCHANGED result
           \/ /\ frame.pc = "locking" /\ frame.op = op /\ frame.at < Len(steps)
              /\ next[1] = "lock" => \A u \in Threads \ {t} : next[2] \notin guards(u)
              /\ call' = [call EXCEPT ![t].at = @ + 1]
              /\ UNCHANGED result
           \/ /\ frame.pc = "locking" /\ frame.op = op
              /\ frame.at = Len(steps) \/ (frame.at < Len(steps) /\ next[1] = "return")
              /\ return(t, Ok)
        /\ UNCHANGED <<persistent, photo_hashes, image_records, pending_indices, files,
                       disk, clock, faults, shadow>>

SpecOrder == LockInit /\ [][\E t \in Threads : \E op \in DOMAIN LockOrder : Locking(t, op)]_vars

\* ------------------------------------------------------------------------
\* a ranking session: the ranking was initialized over four photos, the user
\* asks for a pair and answers it with an outcome other than skip
\* ------------------------------------------------------------------------

\* the comparisons of a session, and those of them that are answered after
\* the selection inside the clusters has no pair left
LiveComparisons == 10

LiveTail == 0

\* the state init_ranking leaves: default ratings, an empty ledger and the
\* clusters of the scan
LiveInit ==
    LET ClusterLayouts ==
            {[cluster_0000 |-> <<"p1", "p2", "p3", "p4">>],
             [cluster_0000 |-> <<"p1", "p2">>, cluster_0001 |-> <<"p3", "p4">>],
             [cluster_0000 |-> <<"p1", "p2", "p3">>, cluster_0001 |-> <<"p4">>],
             [cluster_0000 |-> <<"p1">>, cluster_0001 |-> <<"p2">>,
              cluster_0002 |-> <<"p3", "p4">>]}
    IN  /\ \E layout \in ClusterLayouts :
              persistent =
                  [PersistentState_load EXCEPT
                      !.ranking =
                          [initialized |-> TRUE,
                           ratings |-> initialize_ratings(PurePhotos),
                           clusters |-> to_clusters(layout),
                           photo_to_cluster |->
                               [id \in PurePhotos |->
                                   CHOOSE c \in DOMAIN layout :
                                       \E i \in 1..Len(layout[c]) : layout[c][i] = id],
                           comparison_history |-> <<>>,
                           total_comparisons |-> 0,
                           phase |-> initial_phase(to_clusters(layout)),
                           photo_count |-> Cardinality(PurePhotos),
                           cluster_count |-> Cardinality(DOMAIN layout)]]
        /\ photo_hashes = <<>>
        /\ image_records = <<>>
        /\ pending_indices = <<>>
        /\ files = {}
        /\ disk = persistent
        /\ clock = 1
        /\ faults = 0
        /\ shadow = <<>>
        /\ call = [op |-> "init_ranking", photos |-> PurePhotos]
        /\ result = Ok

\* compare called with the pair get_pair has just returned; the clock ticks
\* with every comparison that leaves the selection inside the clusters without
\* a pair, and the session ends LiveTail comparisons after the first of them
LiveCompare ==
    /\ call.op = "get_pair"
    /\ result.pair # Nothing
    /\ persistent.ranking.total_comparisons < LiveComparisons
    /\ clock <= 1 + LiveTail
    /\ \E res \in {"left", "right", "tie"} :
          compare(result.pair[1], result.pair[2], res, TRUE,
                  IF select_intra_cluster_pair(
                         persistent.ranking.clusters,
                         compared_ratings(persistent.ranking.ratings,
                                          result.pair[1], result.pair[2], res)) = {Nothing}
                  THEN 1 ELSE 0)

\* the user keeps asking and answering: the fairness of GetPair after an
\* answer and of LiveCompare, each stated on the call its steps leave
LiveFairness ==
    LET asked == call.op # "get_pair" /\ call' = [op |-> "get_pair"]
        answered ==
            /\ call.op = "get_pair"
            /\ result.pair # Nothing
            /\ persistent.ranking.total_comparisons < LiveComparisons
            /\ clock <= 1 + LiveTail
            /\ \E res \in {"left", "right", "tie"} :
                  call' = [op |-> "compare", left_id |-> result.pair[1],
                           right_id |-> result.pair[2], result |-> res]
    IN  WF_call(asked) /\ WF_call(answered)

SpecLive == LiveInit /\ [][GetPair \/ LiveCompare]_vars /\ LiveFairness

\* ------------------------------------------------------------------------
\* properties
\* ------------------------------------------------------------------------

Ranking == persistent.ranking

History == persistent.ranking.comparison_history

Ratings == persistent.ranking.ratings

\* the last command was a compare that reached its update
CompareApplied ==
    /\ call.op = "compare"
    /\ call.left_id \in DOMAIN Ratings
    /\ call.right_id \in DOMAIN Ratings
    /\ result.err \in {"", "io"}

\* the last command was an undo_ranking that popped a record
UndoApplied ==
    /\ call.op = "undo_ranking"
    /\ IF result.ok THEN result.success ELSE result.err = "io"

\* C1: the ledger never holds more than 100 records, and a compare applied
\* while it holds 100 leaves the previous records without the oldest one, in
\* their order, followed by the record of this comparison.
C1_LedgerCapped ==
    /\ [](Len(History) <= HISTORY_CAP)
    /\ [][(CompareApplied' /\ Len(History) = HISTORY_CAP) =>
            /\ History' = Append(Tail(History), Last(History'))
            /\ Last(History').left_id = call'.left_id
            /\ Last(History').right_id = call'.right_id
            /\ Last(History').result = call'.result
            /\ Last(History').timestamp = clock]_vars

\* a 101st comparison has just been pushed onto a full ledger
C1_Witness ==
    /\ CompareApplied
    /\ Len(History) = HISTORY_CAP
    /\ Ranking.total_comparisons = HISTORY_CAP + 1
    /\ History[1].timestamp = 2

\* C2: an undo_ranking that pops a record leaves both photos of that record
\* with the mu, sigma and matches_played, and the ranking with the
\* total_comparisons, they had just before the comparison it undoes; so k
\* comparisons followed by k undos restore them all.
C2_UndoInvertsCompare ==
    [][UndoApplied' =>
        /\ \A id \in {Last(History).left_id, Last(History).right_id} :
              Ratings'[id] = Last(shadow).ratings[id]
        /\ Ranking'.total_comparisons = Last(shadow).total_comparisons
        /\ Len(shadow) = Len(History)]_vars

\* HISTORY_CAP comparisons have been undone one after the other, the last of
\* them just now, and every rating is back at its default
C2_Witness ==
    /\ UndoApplied
    /\ clock = HISTORY_CAP + 1
    /\ History = <<>>
    /\ Ranking.total_comparisons = 0
    /\ \A id \in DOMAIN Ratings : Ratings[id] = PhotoRating_default

\* C6: once the ranking is initialized every sigma is at least MIN_SIGMA.
C6_SigmaAtLeastFloor ==
    Ranking.initialized => \A id \in DOMAIN Ratings : Ratings[id].sigma >= MIN_SIGMA

\* a comparison has just been applied to a photo that was already at the
\* floor, and it is still there
C6_Witness ==
    /\ CompareApplied
    /\ call.result # "skip"
    /\ Last(History).left_sigma_before = MIN_SIGMA
    /\ Ratings[call.left_id].sigma = MIN_SIGMA


\* the two sides of a record or of a call, as a count per photo
sides(id, left_id, right_id) ==
    (IF id = left_id THEN 1 ELSE 0) + (IF id = right_id THEN 1 ELSE 0)

\* C3: within an episode the phase never goes back: from global, every step
\* other than an init_ranking leaves it global, the undo of the comparison
\* that made the switch included.
C3_PhaseNeverGoesBack ==
    [][(Ranking.phase = "global" /\ call'.op # "init_ranking") =>
          Ranking'.phase = "global"]_vars

\* the comparison that switched the phase has been undone, and the phase is
\* still global
C3_Witness ==
    /\ UndoApplied
    /\ History = <<>>
    /\ Ranking.total_comparisons = 0
    /\ DOMAIN Ranking.clusters # {}
    /\ Ranking.phase = "global"

\* C4: a step that changes the phase without re-initializing is an applied
\* compare; and an applied compare in the intra_cluster phase, whatever its
\* outcome, ends in global exactly if every cluster is complete.
C4_OnlyCompareSwitches ==
    [][/\ (Ranking'.phase # Ranking.phase /\ call'.op # "init_ranking") => CompareApplied'
       /\ (CompareApplied' /\ Ranking.phase = "intra_cluster") =>
             (Ranking'.phase = "global" <=> check_intra_cluster_complete(Ranking.clusters))
       /\ call'.op \in {"undo_ranking", "get_pair", "get_leaderboard"} =>
             Ranking'.phase = Ranking.phase]_vars

\* a skip made the switch
C4_Witness ==
    /\ CompareApplied
    /\ call.result = "skip"
    /\ Len(History) = 1
    /\ DOMAIN Ranking.clusters # {}
    /\ Ranking.phase = "global"

\* C5 as stated: the phase is intra_cluster exactly if some cluster is
\* incomplete.
C5_Stated ==
    Ranking.initialized =>
        (Ranking.phase = "intra_cluster" <=> ~check_intra_cluster_complete(Ranking.clusters))

\* C5: in the global phase every cluster is complete; the phase can be
\* intra_cluster with every cluster complete, but only while no comparison
\* has been applied since init_ranking.
C5_GlobalOnlyWhenComplete ==
    Ranking.initialized =>
        /\ Ranking.phase \in {"intra_cluster", "global"}
        /\ Ranking.phase = "global" => check_intra_cluster_complete(Ranking.clusters)
        /\ (Ranking.phase = "intra_cluster" /\ check_intra_cluster_complete(Ranking.clusters)) =>
              (History = <<>> /\ Ranking.total_comparisons = 0)

\* init_ranking has just started an episode whose clusters are all complete,
\* in the intra_cluster phase
C5_Witness ==
    /\ call.op = "init_ranking"
    /\ result.ok
    /\ Ranking.initialized
    /\ DOMAIN Ranking.clusters # {}
    /\ check_intra_cluster_complete(Ranking.clusters)
    /\ Ranking.phase = "intra_cluster"

\* C7: a decisive glicko_update on deviations of at least MIN_SIGMA does not
\* lower the winner's mu nor raise the loser's, and leaves both deviations
\* between MIN_SIGMA and their old value; from two default ratings all four
\* changes are strict.
C7_DecisiveUpdateIsMonotone ==
    (call.op = "glicko_update" /\ result.ok /\ ~call.is_tie) =>
        LET winner == result.value[1]
            loser == result.value[2]
            defaults == /\ call.winner_mu = DEFAULT_MU /\ call.loser_mu = DEFAULT_MU
                        /\ call.winner_sigma = DEFAULT_SIGMA /\ call.loser_sigma = DEFAULT_SIGMA
        IN  /\ winner[1] >= call.winner_mu
            /\ loser[1] <= call.loser_mu
            /\ winner[2] <= call.winner_sigma /\ winner[2] >= MIN_SIGMA
            /\ loser[2] <= call.loser_sigma /\ loser[2] >= MIN_SIGMA
            /\ defaults => /\ winner[1] > DEFAULT_MU
                           /\ loser[1] < DEFAULT_MU
                           /\ winner[2] < DEFAULT_SIGMA
                           /\ loser[2] < DEFAULT_SIGMA

\* the decisive update of two default ratings has been computed
C7_Witness ==
    /\ call.op = "glicko_update"
    /\ result.ok
    /\ ~call.is_tie
    /\ call.winner_mu = DEFAULT_MU /\ call.loser_mu = DEFAULT_MU
    /\ call.winner_sigma = DEFAULT_SIGMA /\ call.loser_sigma = DEFAULT_SIGMA
    /\ result.value[1][1] > DEFAULT_MU

\* C8: an applied compare puts its record last in the ledger; with outcome
\* skip it leaves every rating as it was; with any other outcome it adds to
\* each photo's matches_played one for each side of the comparison the photo
\* is on (one for each of two photos) and leaves every other photo's rating
\* as it was.
C8_SkipRatesNothing ==
    [][CompareApplied' =>
        /\ Last(History').left_id = call'.left_id
        /\ Last(History').right_id = call'.right_id
        /\ Last(History').result = call'.result
        /\ Len(History) < HISTORY_CAP => History' = Append(History, Last(History'))
        /\ IF call'.result = "skip"
           THEN Ratings' = Ratings
           ELSE \A id \in DOMAIN Ratings :
                  /\ Ratings'[id].matches_played =
                        Ratings[id].matches_played + sides(id, call'.left_id, call'.right_id)
                  /\ id \notin {call'.left_id, call'.right_id} => Ratings'[id] = Ratings[id]]_vars

\* a skip has been recorded for two photos that had played before, and their
\* match counts are what they were
C8_Witness ==
    /\ CompareApplied
    /\ call.result = "skip"
    /\ call.left_id # call.right_id
    /\ Last(History).result = "skip"
    /\ Ratings[call.left_id].matches_played = HISTORY_CAP
    /\ Ratings[call.right_id].matches_played = HISTORY_CAP
    /\ Ranking.total_comparisons = HISTORY_CAP + 1

\* C9 as stated: undo_ranking lowers total_comparisons and the two
\* matches_played only if the popped record is not a skip.
C9_Stated ==
    [][UndoApplied' =>
        LET record == Last(History)
        IN  IF record.result # "skip"
            THEN Ranking'.total_comparisons = saturating_sub(Ranking.total_comparisons, 1)
            ELSE /\ Ranking'.total_comparisons = Ranking.total_comparisons
                 /\ \A id \in DOMAIN Ratings :
                       Ratings'[id].matches_played = Ratings[id].matches_played]_vars

\* C9: undo_ranking lowers total_comparisons by one, floored at 0, whatever
\* the popped record's outcome; it writes the record's before-values back to
\* both photos, and lowers their matches_played, floored at 0, by one for
\* each side they are on only if the outcome is not skip.
C9_UndoCountsEveryRecord ==
    [][UndoApplied' =>
        LET record == Last(History)
            dec(m, n) == IF record.result # "skip" THEN saturating_sub(m, n) ELSE m
        IN  /\ Ranking'.total_comparisons = saturating_sub(Ranking.total_comparisons, 1)
            /\ History' = pop(History)
            /\ \A id \in DOMAIN Ratings :
                  Ratings'[id].matches_played =
                     dec(Ratings[id].matches_played, sides(id, record.left_id, record.right_id))
            /\ Ratings'[record.left_id].mu = record.left_mu_before
            /\ Ratings'[record.left_id].sigma = record.left_sigma_before
            /\ Ratings'[record.right_id].mu = record.right_mu_before
            /\ Ratings'[record.right_id].sigma = record.right_sigma_before]_vars

\* a skip between two photos that had played has just been undone: the
\* counter went down, the match counts did not
C9_Witness ==
    /\ UndoApplied
    /\ result.ok
    /\ result.message = "Undone comparison: skip"
    /\ Ranking.total_comparisons = HISTORY_CAP
    /\ Ratings["p1"].matches_played = HISTORY_CAP
    /\ Ratings["p2"].matches_played = HISTORY_CAP

\* C10: undo_ranking and the triage undo, called with their log empty,
\* return Ok with success false and the message "Nothing to undo", change
\* nothing of the state or the files, and attempt no write of the state file.
C10_EmptyUndoIsNoOp ==
    [][((call'.op = "undo_ranking" /\ History = <<>>)
        \/ (call'.op = "undo" /\ persistent.history = <<>>)) =>
        /\ result'.ok
        /\ result'.success = FALSE
        /\ result'.message = "Nothing to undo"
        /\ persistent' = persistent
        /\ disk' = disk
        /\ faults' = faults
        /\ files' = files
        /\ pending_indices' = pending_indices]_vars

\* undo_ranking has answered "Nothing to undo" for an initialized ranking
\* while the state file is behind the state in memory
C10_Witness ==
    /\ call.op = "undo_ranking"
    /\ result.ok
    /\ ~result.success
    /\ Ranking.initialized
    /\ History = <<>>
    /\ disk # persistent

\* the triage undo has answered "Nothing to undo" while the state file is
\* behind the state in memory
C10_TriageCase ==
    /\ call.op = "undo"
    /\ result.ok
    /\ ~result.success
    /\ persistent.history = <<>>
    /\ disk # persistent

\* C11: a successful init_ranking leaves exactly the scanned photos rated,
\* each at (1500, 350, 0), the ledger empty, total_comparisons 0 and
\* initialized true, whatever the ranking state was before.
C11_InitRankingResets ==
    [][(call'.op = "init_ranking" /\ result'.ok) =>
        /\ Ranking'.initialized
        /\ DOMAIN Ratings' = call'.photos
        /\ \A id \in call'.photos :
              Ratings'[id] = [mu |-> 1500, sigma |-> 350, matches_played |-> 0]
        /\ History' = <<>>
        /\ Ranking'.total_comparisons = 0]_vars

\* init_ranking has succeeded on a folder from which a photo of an earlier
\* episode is gone
C11_Witness ==
    /\ call.op = "init_ranking"
    /\ result.ok
    /\ DOMAIN Ratings = {"p1", "p3"}
    /\ "p2" \in DOMAIN photo_hashes
    /\ History = <<>>
    /\ Ranking.total_comparisons = 0

\* C12: once init_ranking has run, every photo id listed in a cluster and
\* every key of photo_to_cluster is a key of ratings.
C12_Stated ==
    Ranking.initialized =>
        /\ \A cid \in DOMAIN Ranking.clusters :
              \A i \in 1..Len(Ranking.clusters[cid].photo_ids) :
                  Ranking.clusters[cid].photo_ids[i] \in DOMAIN Ratings
        /\ DOMAIN Ranking.photo_to_cluster \subseteq DOMAIN Ratings

\* what init_ranking does keep: clustered photos are the fingerprinted ones
\* of the hash cache, and every scanned photo is rated
C12_ClustersCoverTheCache ==
    Ranking.initialized =>
        /\ \A cid \in DOMAIN Ranking.clusters :
              \A i \in 1..Len(Ranking.clusters[cid].photo_ids) :
                  Ranking.clusters[cid].photo_ids[i] \in DOMAIN photo_hashes
        /\ DOMAIN Ranking.photo_to_cluster \subseteq DOMAIN photo_hashes

\* a removed photo is still a cluster member after re-initialization
C12_Witness ==
    /\ Ranking.initialized
    /\ DOMAIN Ratings = {"p1", "p3"}
    /\ "p2" \in DOMAIN Ranking.photo_to_cluster

\* C13: compare on a ranking that is not initialized, or with a left or right
\* id that has no rating, returns an error and leaves the whole persistent
\* state (ratings, ledger, total_comparisons, phase) and the state file as
\* they were.
C13_RejectedCompareChangesNothing ==
    [][(/\ call'.op = "compare"
        /\ \/ ~Ranking.initialized
           \/ call'.left_id \notin DOMAIN Ratings
           \/ call'.right_id \notin DOMAIN Ratings) =>
        /\ ~result'.ok
        /\ result'.err = (IF ~Ranking.initialized THEN "Ranking not initialized"
                          ELSE IF call'.left_id \notin DOMAIN Ratings
                          THEN "Left photo not found"
                          ELSE "Right photo not found")
        /\ persistent' = persistent
        /\ disk' = disk]_vars

\* compare was refused for an unrated right side on an initialized ranking
C13_Witness ==
    /\ call.op = "compare"
    /\ Ranking.initialized
    /\ call.left_id \in DOMAIN Ratings
    /\ result.err = "Right photo not found"

\* compare was refused for an unrated left side
C13_LeftCase ==
    /\ call.op = "compare"
    /\ Ranking.initialized
    /\ result.err = "Left photo not found"

\* compare was refused before any init_ranking
C13_UninitializedCase ==
    /\ call.op = "compare"
    /\ result.err = "Ranking not initialized"

\* C14: compare with an outcome other than left, right, tie, skip is rejected
\* with an error and changes nothing; swipe with a direction other than left,
\* right, down is rejected with an error and changes neither the decisions
\* nor the history.
C14_Stated ==
    [][/\ (call'.op = "compare" /\ call'.result \notin {"left", "right", "tie", "skip"}) =>
            (~result'.ok /\ persistent' = persistent)
       /\ (call'.op = "swipe" /\ call'.direction \notin {"left", "right", "down"}) =>
            (/\ ~result'.ok
             /\ persistent'.decisions = persistent.decisions
             /\ persistent'.history = persistent.history)]_vars

\* the swipe half: a direction other than left, right, down is refused and the
\* whole state stays as it was
C14_InvalidDirectionRejected ==
    [][(call'.op = "swipe" /\ call'.direction \notin {"left", "right", "down"}) =>
        /\ ~result'.ok
        /\ persistent' = persistent
        /\ files' = files
        /\ disk' = disk]_vars

\* the compare half as the code has it: an outcome string it does not know
\* is rated as a win of the right photo
C14_UnknownOutcomeRatedAsRight ==
    [][(/\ call'.op = "compare"
        /\ call'.result \notin {"left", "right", "tie", "skip"}
        /\ Ranking.initialized
        /\ call'.left_id \in DOMAIN Ratings
        /\ call'.right_id \in DOMAIN Ratings) =>
        /\ result'.ok
        /\ Ratings' = apply_update(Ratings, call'.left_id, call'.right_id, "right")
        /\ Ranking'.total_comparisons = Ranking.total_comparisons + 1
        /\ Last(History').result = call'.result]_vars

\* a comparison with the outcome "up" has been applied and recorded
C14_Witness ==
    /\ call.op = "compare"
    /\ call.result = "up"
    /\ result.ok
    /\ Ranking.total_comparisons = 1
    /\ Ratings[call.right_id].mu > 1500
    /\ Ratings[call.left_id].mu < 1500

\* a swipe with the direction "up" has been refused
C14_SwipeCase ==
    /\ call.op = "swipe"
    /\ call.direction = "up"
    /\ result.err = "Invalid direction"

\* C15: when the write of the state file fails at the end of compare,
\* undo_ranking or swipe, the command returns an error while the mutation it
\* made in memory stays; and every command that then saves successfully
\* leaves the file equal to the whole state in memory.
C15_FailedSaveKeepsMutation ==
    [][/\ (call'.op = "compare" /\ result'.err = "io") =>
            /\ ~result'.ok
            /\ Ratings' = compared_ratings(Ratings, call'.left_id, call'.right_id,
                                           call'.result)
            /\ Len(History') = Len(History) + 1
            /\ Last(History').left_id = call'.left_id
            /\ Last(History').right_id = call'.right_id
            /\ Ranking'.total_comparisons = Ranking.total_comparisons + 1
       /\ (call'.op = "undo_ranking" /\ result'.err = "io") =>
            /\ ~result'.ok
            /\ History' = pop(History)
            /\ Ranking'.total_comparisons = saturating_sub(Ranking.total_comparisons, 1)
            /\ Ratings'[Last(History).left_id].mu = Last(History).left_mu_before
            /\ Ratings'[Last(History).right_id].mu = Last(History).right_mu_before
       /\ (call'.op = "swipe" /\ result'.err = "io") =>
            /\ ~result'.ok
            /\ persistent'.decisions[call'.image_id] = decision_of(call'.direction)
            /\ Len(persistent'.history) = Len(persistent.history) + 1
            /\ Last(persistent'.history)[1] = call'.image_id
       /\ (/\ call'.op \in {"compare", "undo_ranking", "swipe", "undo", "set_mode",
                            "init_ranking"}
           /\ result'.ok
           /\ "success" \in DOMAIN result' => result'.success) =>
            disk' = persistent'
       /\ disk' # disk => disk' = persistent']_vars

\* the write at the end of compare has failed: the comparison is in memory
\* and not in the file
C15_Witness ==
    /\ call.op = "compare"
    /\ result.err = "io"
    /\ Ranking.total_comparisons = 1
    /\ Len(History) = 1
    /\ disk.ranking.total_comparisons = 0

\* the same for undo_ranking
C15_UndoRankingCase ==
    /\ call.op = "undo_ranking"
    /\ result.err = "io"
    /\ History = <<>>
    /\ disk.ranking.comparison_history # <<>>

\* the same for swipe
C15_SwipeCase ==
    /\ call.op = "swipe"
    /\ result.err = "io"
    /\ persistent.history # <<>>
    /\ disk.history = <<>>

\* after a failed write, a later command has saved the state in memory
C15_LaterSaveCase ==
    /\ faults = 1
    /\ call.op = "undo_ranking"
    /\ result.ok
    /\ result.success
    /\ disk = persistent

\* C17: hamming_distance is symmetric; for two hex-encoded fingerprints of
\* the same length it is the number of bits in which they differ, so 0 for
\* identical ones; for strings of different lengths it is the sentinel
\* u32::MAX.  (Strings of the same length that are not whole hex-encoded
\* bytes also get the sentinel.)
C17_HammingDistance ==
    (call.op = "hamming_distance" /\ result.ok) =>
        LET hash1 == call.hash1
            hash2 == call.hash2
            encoded(h) == Len(h) % 2 = 0 /\ \A i \in 1..Len(h) : h[i] \in 0..15
            bit(d, b) == (d \div (2 ^ b)) % 2
            differing == {ib \in (1..Len(hash1)) \X (0..3) :
                             bit(hash1[ib[1]], ib[2]) # bit(hash2[ib[1]], ib[2])}
        IN  /\ result.value = hamming_distance(hash2, hash1)
            /\ Len(hash1) # Len(hash2) => result.value = U32_MAX
            /\ (Len(hash1) = Len(hash2) /\ encoded(hash1) /\ encoded(hash2)) =>
                   result.value = Cardinality(differing)
            /\ (hash1 = hash2 /\ encoded(hash1)) => result.value = 0
            /\ (Len(hash1) = Len(hash2) /\ ~(encoded(hash1) /\ encoded(hash2))) =>
                   result.value = U32_MAX

\* the distance of two fingerprints 20 bits apart has been computed
C17_Witness ==
    /\ call.op = "hamming_distance"
    /\ result.ok
    /\ call.hash1 = FpBase
    /\ call.hash2 = FpFar
    /\ result.value = 20

\* the cases of the unit test: "ff" against "ff" and against "00"
C17_TestCases ==
    /\ call.op = "hamming_distance"
    /\ result.ok
    /\ call.hash1 = <<15, 15>>
    /\ \/ call.hash2 = <<15, 15>> /\ result.value = 0
       \/ call.hash2 = <<0, 0>> /\ result.value = 8

\* two strings of different lengths got the sentinel
C17_LengthCase ==
    /\ call.op = "hamming_distance"
    /\ result.ok
    /\ call.hash1 = <<15, 15>>
    /\ call.hash2 = <<15, 15, 0, 0>>
    /\ result.value = U32_MAX

\* C18: cluster_photos is first-fit over the representatives.  In the order
\* in which the photos are processed, a photo with a 64-character
\* fingerprint joins the earliest-created cluster whose founder's fingerprint
\* is at distance <= 10, and founds a new cluster when there is none; a cache
\* entry of another length is in no cluster.  Two photos at distance 5 share
\* a cluster, two at distance 20 do not.
C18_FirstFitOverRepresentatives ==
    (call.op = "cluster_photos" /\ result.ok) =>
        LET hashes == call.photo_hashes
            order == result.order
            clusters == result.value.clusters
            photo_to_cluster == result.value.photo_to_cluster
            eligible == {p \in DOMAIN hashes : Len(hashes[p]) = 64}
            pos(p) == CHOOSE i \in 1..Len(order) : order[i] = p
            founder(cid) == clusters[cid][1]
            dist(p, q) == hamming_distance(hashes[p], hashes[q])
            earlier(cid) == {c \in DOMAIN clusters : pos(founder(c)) < pos(founder(cid))}
        IN  /\ DOMAIN photo_to_cluster = eligible
            /\ \A cid \in DOMAIN clusters :
                  /\ clusters[cid] # <<>>
                  /\ {clusters[cid][i] : i \in 1..Len(clusters[cid])}
                        = {p \in eligible : photo_to_cluster[p] = cid}
                  /\ \A i, j \in 1..Len(clusters[cid]) :
                        i < j => pos(clusters[cid][i]) < pos(clusters[cid][j])
                  /\ cid = cluster_id_of(Cardinality(earlier(cid)))
            /\ \A p \in eligible :
                  LET cid == photo_to_cluster[p]
                  IN  /\ cid \in DOMAIN clusters
                      /\ IF p = founder(cid)
                         THEN \A c \in earlier(cid) : dist(p, founder(c)) > 10
                         ELSE /\ pos(founder(cid)) < pos(p)
                              /\ dist(p, founder(cid)) <= 10
                              /\ \A c \in earlier(cid) : dist(p, founder(c)) > 10
            /\ \A p, q \in eligible :
                  (eligible = {p, q} /\ p # q) =>
                      /\ dist(p, q) = 5 => photo_to_cluster[p] = photo_to_cluster[q]
                      /\ dist(p, q) = 20 => photo_to_cluster[p] # photo_to_cluster[q]

\* p3 is within the threshold of the founders of two clusters and has joined
\* the one created first
C18_Witness ==
    /\ call.op = "cluster_photos"
    /\ result.ok
    /\ call.photo_hashes = [p \in Photos |->
                               IF p = "p1" THEN FpBase
                               ELSE IF p = "p2" THEN FpEleven ELSE FpNear]
    /\ result.order = <<"p1", "p2", "p3">>
    /\ result.value.clusters = [c \in {"cluster_0000", "cluster_0001"} |->
                                   IF c = "cluster_0000" THEN <<"p1", "p3">> ELSE <<"p2">>]

\* two photos 5 bits apart are in one cluster
C18_DistanceFiveCase ==
    /\ call.op = "cluster_photos"
    /\ result.ok
    /\ call.photo_hashes = [p \in {"p1", "p2"} |-> IF p = "p1" THEN FpBase ELSE FpNear]
    /\ DOMAIN result.value.clusters = {"cluster_0000"}

\* two photos 20 bits apart are in two clusters
C18_DistanceTwentyCase ==
    /\ call.op = "cluster_photos"
    /\ result.ok
    /\ call.photo_hashes = [p \in {"p1", "p3"} |-> IF p = "p1" THEN FpBase ELSE FpFar]
    /\ DOMAIN result.value.clusters = {"cluster_0000", "cluster_0001"}

\* a cache entry that is not 64 characters long has been passed over
C18_ShortEntryCase ==
    /\ call.op = "cluster_photos"
    /\ result.ok
    /\ call.photo_hashes = [p \in {"p1", "p2"} |-> IF p = "p1" THEN FpBase ELSE FpShort]
    /\ DOMAIN result.value.photo_to_cluster = {"p1"}

\* C19: clustering is deterministic: whatever order the run at hand took the
\* cache entries in, every other run on the same mapping produces the same
\* partition into clusters and the same representatives.
C19_Stated ==
    (call.op = "cluster_photos" /\ result.ok) =>
        LET hashes == call.photo_hashes
            members(v, cid) == {v.clusters[cid][i] : i \in 1..Len(v.clusters[cid])}
            partition(v) == {members(v, cid) : cid \in DOMAIN v.clusters}
            representatives(v) == {v.clusters[cid][1] : cid \in DOMAIN v.clusters}
        IN  \A order \in Orders(DOMAIN hashes) :
                /\ partition(cluster_photos(hashes, order)) = partition(result.value)
                /\ representatives(cluster_photos(hashes, order))
                      = representatives(result.value)

\* what is the same in every run: which photos are clustered at all
C19_EveryRunClustersTheSamePhotos ==
    (call.op = "cluster_photos" /\ result.ok) =>
        \A order \in Orders(DOMAIN call.photo_hashes) :
            DOMAIN cluster_photos(call.photo_hashes, order).photo_to_cluster
                = DOMAIN result.value.photo_to_cluster

\* the same three fingerprints, taken in another order, fall into one cluster
\* instead of two
C19_Witness ==
    /\ call.op = "cluster_photos"
    /\ result.ok
    /\ call.photo_hashes = [p \in Photos |->
                               IF p = "p1" THEN FpBase
                               ELSE IF p = "p2" THEN FpEleven ELSE FpNear]
    /\ result.order = <<"p3", "p1", "p2">>
    /\ result.value.clusters = [c \in {"cluster_0000"} |-> <<"p3", "p1", "p2">>]

\* C20: a photo whose fingerprint could not be computed does not block
\* init_ranking: init_ranking succeeds and gives it the default rating; it is
\* in no cluster and has no photo_to_cluster entry; select_pair can return it
\* whenever no cluster offers a pair; and a compare that names it rates it.
C20_UnfingerprintedPhotoIsRanked ==
    /\ [](Ranking.initialized =>
            \A u \in (DOMAIN Ratings) \ DOMAIN photo_hashes :
                /\ u \notin DOMAIN Ranking.photo_to_cluster
                /\ \A cid \in DOMAIN Ranking.clusters :
                      \A i \in 1..Len(Ranking.clusters[cid].photo_ids) :
                          Ranking.clusters[cid].photo_ids[i] # u
                /\ (/\ Cardinality(DOMAIN Ratings) >= 2
                    /\ \/ Ranking.phase = "global"
                       \/ select_intra_cluster_pair(Ranking.clusters, Ratings) = {Nothing}) =>
                      \E pair \in select_pair(Ranking) :
                          pair # Nothing /\ u \in {pair[1], pair[2]})
    /\ [][/\ (call'.op = "init_ranking" /\ call'.photos # {}) =>
                /\ result'.ok
                /\ \A u \in call'.photos \ DOMAIN photo_hashes' :
                      /\ u \in DOMAIN Ratings'
                      /\ Ratings'[u] = [mu |-> 1500, sigma |-> 350, matches_played |-> 0]
          /\ (/\ call'.op = "compare"
              /\ call'.result # "skip"
              /\ {call'.left_id, call'.right_id} \subseteq DOMAIN Ratings
              /\ {call'.left_id, call'.right_id} \ DOMAIN photo_hashes # {}) =>
                /\ result'.ok
                /\ \A u \in {call'.left_id, call'.right_id} :
                      /\ Ratings'[u].matches_played = Ratings[u].matches_played + 1
                      /\ Ratings'[u].sigma < Ratings[u].sigma
                      /\ call'.result = "tie" \/
                            (IF (u = call'.left_id) = (call'.result = "left")
                             THEN Ratings'[u].mu > Ratings[u].mu
                             ELSE Ratings'[u].mu < Ratings[u].mu)]_vars

\* p3 has no fingerprint, is in no cluster, and a comparison has rated it
C20_Witness ==
    /\ call.op = "compare"
    /\ result.ok
    /\ call.right_id = "p3"
    /\ "p3" \notin DOMAIN photo_hashes
    /\ "p3" \notin DOMAIN Ranking.photo_to_cluster
    /\ Ratings["p3"].matches_played = 1
    /\ Ratings["p3"].sigma < 350

\* get_pair has returned a pair with the photo that has no fingerprint
C20_SelectedCase ==
    /\ call.op = "get_pair"
    /\ result.pair # Nothing
    /\ "p3" \in {result.pair[1], result.pair[2]}
    /\ "p3" \in DOMAIN Ratings
    /\ "p3" \notin DOMAIN photo_hashes

\* C16: get_pair, compare, undo_ranking, init_ranking and get_leaderboard
\* hold the lock of the persistent state from their first read to their last
\* write and save, so under every interleaving of two threads: at most one
\* thread is inside; whenever no thread is inside, the state in memory is the
\* saved one; and what a command reads or returns all comes from the one state
\* that was saved when it took the lock, never from a half-applied comparison.
C16_CommandsAreAtomic ==
    /\ [](\A t, u \in Threads :
            (call[t].pc \in HoldsPersistent /\ call[u].pc \in HoldsPersistent) => t = u)
    /\ []((\A t \in Threads : call[t].pc \notin HoldsPersistent) => persistent = disk)
    /\ [](\A t \in Threads :
            /\ call[t].pc = "locked" => persistent = disk
            /\ call[t].pc = "pair_read" =>
                  /\ persistent = disk
                  /\ call[t].left_rating = disk.ranking.ratings[call[t].pair[1]]
                  /\ call[t].right_rating = disk.ranking.ratings[call[t].pair[2]])
    /\ [][\A t \in Threads :
            (call[t].pc \in HoldsPersistent /\ call'[t].pc = "idle") =>
                /\ call[t].op \in {"get_pair", "get_leaderboard"} =>
                      /\ persistent = disk
                      /\ UNCHANGED <<persistent, disk>>
                /\ (call[t].op = "get_pair" /\ result'[t].pair # Nothing) =>
                      /\ result'[t].pair \in select_pair(disk.ranking)
                      /\ result'[t].left = disk.ranking.ratings[result'[t].pair[1]]
                      /\ result'[t].right = disk.ranking.ratings[result'[t].pair[2]]
                      /\ result'[t].total_comparisons = disk.ranking.total_comparisons
                /\ (call[t].op = "get_leaderboard" /\ disk.ranking.initialized) =>
                      \A i \in 1..Len(result'[t].board) :
                          LET entry == result'[t].board[i]
                              rating == disk.ranking.ratings[entry.id]
                          IN  /\ entry.mu = rating.mu
                              /\ entry.sigma = rating.sigma
                              /\ entry.matches_played = rating.matches_played
                /\ (call[t].op = "compare" /\ result'[t].ok) =>
                      /\ Ratings' = compared_ratings(disk.ranking.ratings, call[t].left_id,
                                                     call[t].right_id, call[t].result)
                      /\ History' = push_trimmed(disk.ranking.comparison_history,
                                                 call[t].record)
                      /\ call[t].record.left_mu_before
                            = disk.ranking.ratings[call[t].left_id].mu
                      /\ call[t].record.right_mu_before
                            = disk.ranking.ratings[call[t].right_id].mu
                      /\ Ranking'.total_comparisons = disk.ranking.total_comparisons + 1
                      /\ disk' = persistent'
                /\ (call[t].op = "undo_ranking" /\ call[t].pc = "restored") =>
                      /\ History' = pop(disk.ranking.comparison_history)
                      /\ call[t].record = Last(disk.ranking.comparison_history)
                      /\ Ranking'.total_comparisons
                            = saturating_sub(disk.ranking.total_comparisons, 1)
                      /\ disk' = persistent'
                /\ call[t].op = "init_ranking" =>
                      /\ History' = <<>>
                      /\ Ranking'.total_comparisons = 0
                      /\ disk' = persistent']_vars

\* thread t1 is between the two rating writes of a compare while t2 has
\* called get_pair and waits for the lock of the persistent state
C16_Witness ==
    /\ call["t1"].op = "compare"
    /\ call["t1"].pc = "winner_written"
    /\ call["t2"].op = "get_pair"
    /\ call["t2"].pc = "config_locked"
    /\ persistent # disk

\* get_pair has returned a pair after a comparison had been applied by the
\* other thread
C16_ObservedCase ==
    /\ call["t2"] = Idle
    /\ "pair" \in DOMAIN result["t2"]
    /\ result["t2"].pair # Nothing
    /\ result["t2"].total_comparisons = 1
    /\ result["t2"].left.matches_played = 1
    /\ "left_id" \in DOMAIN result["t1"]

\* C21: get_leaderboard returns the rated photos in descending order of the
\* conservative score mu - 2*sigma, cut to the limit: min(limit, number of
\* rated photos) entries, no photo left out that scores higher than one that
\* is in; and the empty list when the ranking is not initialized.
C21_Stated ==
    (call.op = "get_leaderboard" /\ result.ok) =>
        LET ratings == call.ratings
            board == result.board
            score(id) == ratings[id].mu - 2 * ratings[id].sigma
            listed == {board[i] : i \in 1..Len(board)}
        IN  IF ~call.initialized THEN board = <<>>
            ELSE /\ Len(board) = Min(call.limit, Cardinality(DOMAIN ratings))
                 /\ listed \subseteq DOMAIN ratings
                 /\ Cardinality(listed) = Len(board)
                 /\ \A i, j \in 1..Len(board) : i < j => score(board[i]) >= score(board[j])
                 /\ \A in \in listed : \A out \in (DOMAIN ratings) \ listed :
                       score(in) >= score(out)

\* what the code keeps: the same with the score rounded to one decimal, which
\* is the score field of the returned entries
C21_SortedByRoundedScore ==
    (call.op = "get_leaderboard" /\ result.ok) =>
        LET ratings == call.ratings
            board == result.board
            score(id) == ratings[id].mu - 2 * ratings[id].sigma
            shown(id) == ((score(id) + 5) \div 10) * 10
            listed == {board[i] : i \in 1..Len(board)}
        IN  IF ~call.initialized THEN board = <<>>
            ELSE /\ Len(board) = Min(call.limit, Cardinality(DOMAIN ratings))
                 /\ listed \subseteq DOMAIN ratings
                 /\ Cardinality(listed) = Len(board)
                 /\ \A i, j \in 1..Len(board) : i < j => shown(board[i]) >= shown(board[j])
                 /\ \A in \in listed : \A out \in (DOMAIN ratings) \ listed :
                       shown(in) >= shown(out)

\* p1 scores 900.01 and p2 900.04; both show as 900.0 and p1 is listed first
C21_Witness ==
    /\ call.op = "get_leaderboard"
    /\ result.ok
    /\ call.initialized
    /\ DOMAIN call.ratings = {"p1", "p2"}
    /\ call.ratings["p1"].mu = 100001
    /\ call.ratings["p2"].mu = 100004
    /\ call.limit = 1
    /\ result.board = <<"p1">>

\* the outcome that names the same winner once the two photos change sides
C22_Mirrored(res) == IF res = "left" THEN "right" ELSE IF res = "right" THEN "left" ELSE res

\* C22: the rating update does not depend on the order of the arguments:
\* whenever compare(A, B, left|right|tie) has rated two photos, the ratings it
\* leaves are the ones compare(B, A, right|left|tie) leaves from the same
\* state.
C22_ArgumentOrderIsIrrelevant ==
    [][(CompareApplied' /\ call'.result \in {"left", "right", "tie"}) =>
          Ratings' = compared_ratings(Ratings, call'.right_id, call'.left_id,
                                      C22_Mirrored(call'.result))]_vars

\* a decisive comparison between a photo that has played HISTORY_CAP matches
\* and one that has played none has moved both ratings
C22_Witness ==
    /\ CompareApplied
    /\ call.left_id = "p3"
    /\ call.right_id = "p1"
    /\ call.result = "right"
    /\ Ratings["p1"].matches_played = HISTORY_CAP + 1
    /\ Ratings["p3"].matches_played = 1
    /\ Ratings["p1"].mu > Ratings["p2"].mu
    /\ Ratings["p3"].mu < DEFAULT_MU
    /\ Ratings["p1"].sigma < Ratings["p3"].sigma

\* the same for a tie between two photos of different sigma
C22_TieCase ==
    /\ CompareApplied
    /\ call.left_id = "p3"
    /\ call.right_id = "p2"
    /\ call.result = "tie"
    /\ Ratings["p3"].matches_played = 1
    /\ Ratings["p3"].sigma < DEFAULT_SIGMA
    /\ Ratings["p2"].sigma < Ratings["p3"].sigma

\* the decision history of the triage
C23_TriageHistory == persistent.history

\* the last command was a swipe that recorded a decision
C23_SwipeApplied ==
    /\ call.op = "swipe"
    /\ result.ok

\* C23: the triage decision history holds at most 100 entries in every
\* reachable state, and a swipe made with 100 entries present drops exactly
\* the oldest entry and appends the new one.
C23_TriageHistoryIsBounded ==
    /\ [](Len(C23_TriageHistory) <= HISTORY_CAP)
    /\ [][C23_SwipeApplied' =>
             LET id == call'.image_id
                 before == IF id \in DOMAIN persistent.decisions
                           THEN persistent.decisions[id] ELSE "pending"
                 entry == <<id, before, decision_of(call'.direction)>>
             IN  C23_TriageHistory' =
                    IF Len(C23_TriageHistory) = HISTORY_CAP
                    THEN Append(Tail(C23_TriageHistory), entry)
                    ELSE Append(C23_TriageHistory, entry)]_vars

\* the history is full, its oldest entry has been dropped and the decision
\* on the second image is its newest entry
C23_Witness ==
    /\ C23_SwipeApplied
    /\ call.image_id = "b"
    /\ Len(C23_TriageHistory) = HISTORY_CAP
    /\ C23_TriageHistory[1] = <<"a", "skipped", "skipped">>
    /\ C23_TriageHistory[HISTORY_CAP - 1][1] = "a"
    /\ C23_TriageHistory[HISTORY_CAP] = <<"b", "pending", "accepted">>

\* an undo that found an entry and completed directly follows a swipe that
\* recorded a decision
C24_UndoAfterSwipe ==
    /\ call.op = "swipe"
    /\ result.ok
    /\ call'.op = "undo"
    /\ result'.ok
    /\ result'.success

\* the image on display
C24_Current == get_current_record(image_records, pending_indices, persistent.current_index)

\* the decision on the swiped image is what it was before the swipe
C24_DecisionRestored ==
    LET id == call.image_id
        before == Last(persistent.history)[2]
    IN  /\ Last(persistent.history)[1] = id
        /\ Last(persistent.history)[3] = decision_of(call.direction)
        /\ IF before = "pending"
           THEN id \notin DOMAIN persistent'.decisions
           ELSE id \in DOMAIN persistent'.decisions /\ persistent'.decisions[id] = before
        /\ \A other \in (DOMAIN persistent.decisions) \ {id} :
              /\ other \in DOMAIN persistent'.decisions
              /\ persistent'.decisions[other] = persistent.decisions[other]

\* a file the swipe moved is back at its original path
C24_FileRestored ==
    LET id == call.image_id
    IN  decision_of(call.direction) \in {"accepted", "rejected"} =>
           /\ persistent.original_paths[id] \in files'
           /\ persistent.moved_files[id] \notin files'

C24_AcceptedImageCase ==
    /\ call.op = "undo"
    /\ result.ok
    /\ result.success
    /\ result.image_id = "a"
    /\ result.message = "Undone: skipped -> accepted"
    /\ persistent.decisions["a"] = "accepted"
    /\ "a" \in DOMAIN persistent.moved_files
    /\ <<"accepted", "a">> \in files
    /\ C24_Current # Nothing
    /\ C24_Current.id = "b"

\* select_intra_cluster_pair has answered
C25_Selected ==
    /\ call.op = "select_intra_cluster_pair"
    /\ result.ok

\* C25: a pair from the intra-cluster selection consists of two different
\* members of one cluster that is not marked complete, both rated; the primary
\* has the largest sigma among the rated members (the first of them in member
\* order on a tie) and the opponent is the other rated member whose mu is
\* closest to the primary's (the first of them in member order on a tie).
C25_IntraClusterPair ==
    (C25_Selected /\ result.pair # Nothing) =>
        \E c \in DOMAIN call.clusters :
            LET ratings == call.ratings
                members == call.clusters[c].photo_ids
                valid == {k \in 1..Len(members) : members[k] \in DOMAIN ratings}
            IN  /\ ~call.clusters[c].internal_ranking_complete
                /\ \E i, j \in valid :
                      LET gap(k) == Abs(ratings[members[k]].mu - ratings[members[i]].mu)
                      IN  /\ i # j
                          /\ result.pair = <<members[i], members[j]>>
                          /\ \A k \in valid :
                                /\ ratings[members[k]].sigma <= ratings[members[i]].sigma
                                /\ k < i => ratings[members[k]].sigma < ratings[members[i]].sigma
                          /\ \A k \in valid \ {i} :
                                /\ gap(k) >= gap(j)
                                /\ k < j => gap(k) > gap(j)

\* two members share the largest sigma and the three others are equally far
\* from the primary's mu: the first of each is taken
C25_Witness ==
    /\ C25_Selected
    /\ DOMAIN call.clusters = {"c1"}
    /\ DOMAIN call.ratings = PurePhotos
    /\ call.ratings["p1"].sigma = 60
    /\ call.ratings["p2"].sigma = 350
    /\ call.ratings["p2"].mu = 1500
    /\ call.ratings["p3"].sigma = 350
    /\ call.ratings["p3"].mu = 1520
    /\ call.ratings["p4"].mu = 1480
    /\ result.pair = <<"p2", "p1">>

\* the sum of the sigmas of the rated ones among the first n members
RECURSIVE C26_SigmaSum(_, _, _)
C26_SigmaSum(ratings, members, n) ==
    IF n = 0 THEN 0
    ELSE (IF members[n] \in DOMAIN ratings THEN ratings[members[n]].sigma ELSE 0)
         + C26_SigmaSum(ratings, members, n - 1)

\* the cluster is one select_intra_cluster_pair passes over: marked complete,
\* fewer than two rated members, or converged (average sigma below 100, or
\* every rated member has played the required number of matches)
C26_Skipped(cluster, ratings) ==
    LET members == cluster.photo_ids
        valid == {k \in 1..Len(members) : members[k] \in DOMAIN ratings}
        n == Cardinality(valid)
        required == IF n = 2 THEN 1 ELSE IF n = 3 THEN 2 ELSE 3
    IN  \/ cluster.internal_ranking_complete
        \/ n < 2
        \/ C26_SigmaSum(ratings, members, Len(members)) < 100 * n
        \/ \A k \in valid : ratings[members[k]].matches_played >= required

\* C26: the intra-cluster selection never returns a pair from a cluster that
\* is marked complete, has fewer than two rated members, or is converged;
\* such clusters are passed over and the selection goes on: it returns a pair
\* exactly if some cluster is not passed over.
C26_NoPairFromSkippedCluster ==
    C25_Selected =>
        LET clusters == call.clusters
            member(c, id) == \E k \in 1..Len(clusters[c].photo_ids) : clusters[c].photo_ids[k] = id
        IN  /\ (result.pair = Nothing) <=>
                  \A c \in DOMAIN clusters : C26_Skipped(clusters[c], call.ratings)
            /\ result.pair # Nothing =>
                  \A c \in DOMAIN clusters :
                      C26_Skipped(clusters[c], call.ratings) =>
                         /\ ~member(c, result.pair[1])
                         /\ ~member(c, result.pair[2])

\* the first cluster is converged (both members have played once) and not
\* marked complete; the pair comes from the second
C26_Witness ==
    /\ C25_Selected
    /\ DOMAIN call.clusters = {"c1", "c2"}
    /\ call.clusters["c1"].photo_ids = <<"p1", "p2">>
    /\ ~call.clusters["c1"].internal_ranking_complete
    /\ DOMAIN call.ratings = PurePhotos
    /\ call.ratings["p1"].matches_played = 1
    /\ call.ratings["p2"].matches_played = 1
    /\ call.ratings["p1"].sigma = 350
    /\ result.pair = <<"p3", "p4">>

\* three rated members with two matches each: nothing is selected
C26_TripleCase ==
    /\ C25_Selected
    /\ DOMAIN call.clusters = {"c1", "c2"}
    /\ call.clusters["c1"].photo_ids = <<"p2", "p1", "p3">>
    /\ ~call.clusters["c1"].internal_ranking_complete
    /\ ~call.clusters["c2"].internal_ranking_complete
    /\ DOMAIN call.ratings = PurePhotos
    /\ \A id \in {"p1", "p2", "p3"} : call.ratings[id].matches_played = 2
    /\ result.pair = Nothing

\* a member without a rating leaves two rated members of a triple: one match
\* each is enough
C26_StaleMemberCase ==
    /\ C25_Selected
    /\ DOMAIN call.clusters = {"c1", "c2"}
    /\ call.clusters["c1"].photo_ids = <<"p2", "p1", "p3">>
    /\ ~call.clusters["c1"].internal_ranking_complete
    /\ DOMAIN call.ratings = PurePhotos \ {"p2"}
    /\ call.ratings["p1"].matches_played = 1
    /\ call.ratings["p3"].matches_played = 1
    /\ call.ratings["p1"].sigma = 350
    /\ result.pair = Nothing

\* select_global_pair has answered
C27_Selected ==
    /\ call.op = "select_global_pair"
    /\ result.ok

\* C27: in the global selection the primary is one of the max(10, floor(n/10))
\* photos of highest sigma; the opponent is another photo, the closest in mu
\* to the primary within a sample of min(20, n - 1) of the others, so that at
\* most the photos left out of the sample are closer than it; with n <= 21 it
\* is the closest in mu of all the others.
C27_GlobalPair ==
    (C27_Selected /\ result.pair # Nothing) =>
        LET ratings == call.ratings
            n == Cardinality(DOMAIN ratings)
            primary == result.pair[1]
            opponent == result.pair[2]
            others == (DOMAIN ratings) \ {primary}
            top_n == IF n \div 10 > 10 THEN n \div 10 ELSE 10
            sample_size == IF n - 1 < 20 THEN n - 1 ELSE 20
            gap(id) == Abs(ratings[id].mu - ratings[primary].mu)
            higher == {id \in DOMAIN ratings : ratings[id].sigma > ratings[primary].sigma}
            closer == {id \in others : gap(id) < gap(opponent)}
        IN  /\ primary \in DOMAIN ratings
            /\ opponent \in others
            /\ Cardinality(higher) < top_n
            /\ Cardinality(closer) <= (n - 1) - sample_size
            /\ n <= 21 => closer = {}

\* of 110 photos of different sigma the one with the eleventh-highest sigma is
\* the primary, and its opponent is not the closest in mu
C27_Witness ==
    /\ C27_Selected
    /\ Cardinality(DOMAIN call.ratings) = 110
    /\ result.pair = <<"g011", "g014">>

\* of 23 photos of different sigma the tenth is the primary and the opponent
\* is the third-closest in mu: a sample of 20 of the 22 others can miss the
\* two that are closer
C27_SampleCase ==
    /\ C27_Selected
    /\ Cardinality(DOMAIN call.ratings) = 23
    /\ call.ratings["g001"].sigma > call.ratings["g002"].sigma
    /\ call.ratings["g001"].mu < call.ratings["g002"].mu
    /\ result.pair = <<"g010", "g012">>

\* of 21 photos the opponent is the closest of all
C27_SmallCase ==
    /\ C27_Selected
    /\ Cardinality(DOMAIN call.ratings) = 21
    /\ call.ratings["g001"].sigma > call.ratings["g002"].sigma
    /\ call.ratings["g001"].mu < call.ratings["g002"].mu
    /\ result.pair = <<"g010", "g009">>

\* with fewer than two photos there is no pair
C27_NoPairCase ==
    /\ C27_Selected
    /\ Cardinality(DOMAIN call.ratings) = 1
    /\ result.pair = Nothing

\* get_pair has asked select_pair for a pair
C28_Selected ==
    /\ call.op = "get_pair"
    /\ result.ok
    /\ ~result.error

\* no cluster of the ranking yields a pair
C28_NoClusterPair ==
    \A c \in DOMAIN Ranking.clusters : C26_Skipped(Ranking.clusters[c], Ratings)

\* C28: select_pair returns no pair exactly if fewer than two photos are
\* rated.  With two or more it returns a pair of two different rated photos;
\* when the phase is intra_cluster and no cluster yields a pair, the pair is
\* one of the global selection (any primary of the at most ten photos, the
\* opponent the closest in mu of the others).  The selection, with or without
\* the fallback, changes neither the phase nor anything else of the state.
C28_PairUnlessFewerThanTwo ==
    [][C28_Selected' =>
          LET n == Cardinality(DOMAIN Ratings)
              pair == result'.pair
              gap(id) == Abs(Ratings[id].mu - Ratings[pair[1]].mu)
          IN  /\ (pair = Nothing) <=> n < 2
              /\ pair # Nothing =>
                    /\ pair[1] \in DOMAIN Ratings
                    /\ pair[2] \in (DOMAIN Ratings) \ {pair[1]}
              /\ (pair # Nothing /\ (Ranking.phase # "intra_cluster" \/ C28_NoClusterPair)) =>
                    \A id \in (DOMAIN Ratings) \ {pair[1]} : gap(id) >= gap(pair[2])
              /\ (pair # Nothing /\ Ranking.phase = "intra_cluster" /\ ~C28_NoClusterPair) =>
                    \E c \in DOMAIN Ranking.clusters :
                        /\ ~C26_Skipped(Ranking.clusters[c], Ratings)
                        /\ \E i, j \in 1..Len(Ranking.clusters[c].photo_ids) :
                              pair = <<Ranking.clusters[c].photo_ids[i],
                                       Ranking.clusters[c].photo_ids[j]>>
              /\ persistent' = persistent]_vars

\* the phase is intra_cluster, the one cluster of two has had its comparison
\* and is not marked complete, and a pair is returned all the same
C28_Witness ==
    /\ C28_Selected
    /\ Ranking.phase = "intra_cluster"
    /\ C28_NoClusterPair
    /\ \E c \in DOMAIN Ranking.clusters : ~Ranking.clusters[c].internal_ranking_complete
    /\ Ranking.total_comparisons = 1
    /\ result.pair # Nothing

\* the ranking is initialized with one photo, and there is no pair
C28_NoPairCase ==
    /\ C28_Selected
    /\ Ranking.initialized
    /\ DOMAIN Ratings = {"p1"}
    /\ result.pair = Nothing
    /\ result.done

\* a pair from a cluster
C28_ClusterCase ==
    /\ C28_Selected
    /\ Ranking.phase = "intra_cluster"
    /\ ~C28_NoClusterPair
    /\ result.pair # Nothing

\* the photos named in the comparison the step makes or takes back
C29_Named ==
    IF call'.op = "compare" THEN {call'.left_id, call'.right_id}
    ELSE IF History # <<>> THEN {Last(History).left_id, Last(History).right_id}
    ELSE {}

\* C29: compare and undo_ranking change only the mu, sigma and matches_played
\* of the two photos named in the comparison, comparison_history,
\* total_comparisons and (compare only) the phase: every other photo's rating,
\* the key set of ratings, the clusters, photo_to_cluster and the rest of the
\* state are unchanged; get_pair and get_leaderboard change nothing.
C29_OnlyTheNamedPhotosChange ==
    [][/\ call'.op \in {"compare", "undo_ranking"} =>
            /\ DOMAIN Ratings' = DOMAIN Ratings
            /\ \A id \in (DOMAIN Ratings) \ C29_Named : Ratings'[id] = Ratings[id]
            /\ Ranking'.clusters = Ranking.clusters
            /\ Ranking'.photo_to_cluster = Ranking.photo_to_cluster
            /\ [Ranking' EXCEPT !.ratings = Ratings, !.comparison_history = History,
                                !.total_comparisons = Ranking.total_comparisons,
                                !.phase = Ranking.phase] = Ranking
            /\ [persistent' EXCEPT !.ranking = Ranking] = persistent
            /\ call'.op = "undo_ranking" => Ranking'.phase = Ranking.phase
            /\ photo_hashes' = photo_hashes
       /\ call'.op \in {"get_pair", "get_leaderboard"} =>
            /\ persistent' = persistent
            /\ photo_hashes' = photo_hashes
            /\ disk' = disk]_vars

\* a comparison of two of three photos has changed both their ratings and
\* the two counters, and the third photo has its initial rating
C29_Witness ==
    /\ CompareApplied
    /\ call.left_id = "p1"
    /\ call.right_id = "p3"
    /\ call.result = "left"
    /\ DOMAIN Ratings = {"p1", "p2", "p3"}
    /\ Ratings["p1"].mu > DEFAULT_MU
    /\ Ratings["p3"].mu < DEFAULT_MU
    /\ Ratings["p1"].matches_played = 1
    /\ Ratings["p2"] = [mu |-> DEFAULT_MU, sigma |-> DEFAULT_SIGMA, matches_played |-> 0]
    /\ Ranking.total_comparisons = 1
    /\ Len(History) = 1

\* the same comparison has been taken back
C29_UndoCase ==
    /\ UndoApplied
    /\ DOMAIN Ratings = {"p1", "p2", "p3"}
    /\ \A id \in DOMAIN Ratings :
          Ratings[id] = [mu |-> DEFAULT_MU, sigma |-> DEFAULT_SIGMA, matches_played |-> 0]
    /\ Ranking.total_comparisons = 0
    /\ History = <<>>

\* get_leaderboard has answered for a ranking with a comparison on record
C29_ReadCase ==
    /\ call.op = "get_leaderboard"
    /\ Len(result.board) = LeaderboardLimit
    /\ Len(History) = 1

\* finalize_cluster has returned
C30_Finalized ==
    /\ call.op = "finalize_cluster"
    /\ result.ok

\* C30: finalize_cluster sets internal_ranking_complete and sets
\* representative_id to a member of the cluster that is rated and has the
\* highest conservative score mu - 2*sigma among the rated members, to None
\* when no member is rated; photo_ids and every rating are unchanged.
C30_FinalizeCluster ==
    C30_Finalized =>
        LET ratings == call.ratings
            members == {call.cluster.photo_ids[i] : i \in 1..Len(call.cluster.photo_ids)}
            rated == members \cap DOMAIN ratings
            score(id) == ratings[id].mu - 2 * ratings[id].sigma
            representative == result.cluster.representative_id
        IN  /\ result.cluster.internal_ranking_complete
            /\ IF rated = {} THEN representative = None
               ELSE /\ representative \in rated
                    /\ \A id \in rated : score(id) <= score(representative)
            /\ result.cluster.photo_ids = call.cluster.photo_ids
            /\ result.cluster.id = call.cluster.id
            /\ result.ratings = call.ratings

\* the member of highest mu is not the one of highest score, and a member
\* without a rating is passed over: p3 (1480 - 240) is taken, not p1
\* (1520 - 700)
C30_Witness ==
    /\ C30_Finalized
    /\ call.cluster.photo_ids = <<"p2", "p1", "p3">>
    /\ ~call.cluster.internal_ranking_complete
    /\ call.cluster.representative_id = None
    /\ DOMAIN call.ratings = PurePhotos \ {"p2"}
    /\ call.ratings["p1"] = [mu |-> 1520, sigma |-> 350, matches_played |-> 1]
    /\ call.ratings["p3"] = [mu |-> 1480, sigma |-> 120, matches_played |-> 3]
    /\ result.cluster.representative_id = "p3"
    /\ result.cluster.internal_ranking_complete

\* no member is rated: the representative that was set is cleared
C30_NoneCase ==
    /\ C30_Finalized
    /\ call.cluster.photo_ids = <<"p1">>
    /\ call.cluster.representative_id = "p1"
    /\ DOMAIN call.ratings = {"p4"}
    /\ result.cluster.representative_id = None

\* two members share the highest score: the later one is taken
C30_TieCase ==
    /\ C30_Finalized
    /\ call.cluster.photo_ids = <<"p3", "p4">>
    /\ DOMAIN call.ratings = PurePhotos
    /\ call.ratings["p3"].mu = 1480
    /\ call.ratings["p3"].sigma = 60
    /\ call.ratings["p4"].mu = 1600
    /\ result.cluster.representative_id = "p4"

\* C31: in an initialized ranking with a cluster of two or more photos, a
\* user who keeps answering the pairs get_pair returns with outcomes other
\* than skip eventually finds every cluster with internal_ranking_complete
\* set and the phase global.
C31_Stated ==
    <>(/\ \A c \in DOMAIN Ranking.clusters : Ranking.clusters[c].internal_ranking_complete
       /\ Ranking.phase = "global")

\* no command sets internal_ranking_complete: a cluster of two or more photos
\* is never complete and the phase stays intra_cluster
C31_NeverComplete ==
    /\ Ranking.phase = "intra_cluster"
    /\ \A c \in DOMAIN Ranking.clusters :
          Ranking.clusters[c].internal_ranking_complete
              <=> Len(Ranking.clusters[c].photo_ids) < 2

\* every cluster has converged and get_pair serves a pair of the global
\* selection, while the cluster of four is not complete and the phase is
\* intra_cluster still
C31_Witness ==
    /\ call.op = "get_pair"
    /\ result.pair # Nothing
    /\ select_intra_cluster_pair(Ranking.clusters, Ratings) = {Nothing}
    /\ Ranking.total_comparisons >= 6
    /\ Ranking.phase = "intra_cluster"
    /\ Len(Ranking.clusters["cluster_0000"].photo_ids) = 4
    /\ ~Ranking.clusters["cluster_0000"].internal_ranking_complete

\* the members of cluster c that are rated
C32_Valid(c) == filter_in(Ranking.clusters[c].photo_ids, DOMAIN Ratings, 1)

\* cluster c has converged and the selection passes it by
C32_Converged(c) ==
    LET valid_ids == C32_Valid(c)
        n_photos == Len(valid_ids)
    IN  /\ \/ \A i \in 1..n_photos :
                 Ratings[valid_ids[i]].matches_played >= required_matches(n_photos)
           \/ sum_sigma(Ratings, valid_ids, 1) < 100 * n_photos
        /\ cluster_pair(Ranking.clusters[c], Ratings) = Nothing

C32_AllConverged ==
    \A c \in DOMAIN Ranking.clusters : Len(C32_Valid(c)) >= 2 => C32_Converged(c)

\* C32: from default ratings, when every pair the intra-cluster selection
\* returns is answered with an outcome other than skip, every cluster of two
\* or more rated photos is converged after finitely many comparisons (each
\* member has required_matches(n) matches, or the average sigma is below
\* 100), and from then on the selection returns no pair from it.
C32_IntraClusterTerminates == <>[]C32_AllConverged

\* the cluster of four has converged: three matches each after six
\* comparisons or more
C32_Witness ==
    /\ CompareApplied
    /\ C32_AllConverged
    /\ Len(Ranking.clusters["cluster_0000"].photo_ids) = 4
    /\ \A id \in PurePhotos : Ratings[id].matches_played >= 3
    /\ Ranking.total_comparisons >= 6

\* a skip of the pair the selection serves was recorded, in phase
\* intra_cluster, and a third rated photo makes other pairs
C33_Skipped ==
    /\ CompareApplied
    /\ call.result = "skip"
    /\ Ranking.phase = "intra_cluster"
    /\ <<call.left_id, call.right_id>> \in select_pair(Ranking)
    /\ Cardinality(DOMAIN Ratings) >= 3

\* C33: in phase intra_cluster, after compare(L, R, skip) on the pair
\* select_pair returned, the next get_pair does not return the pair (L, R)
\* again when another pair is available.
C33_Stated ==
    [][(C33_Skipped /\ call'.op = "get_pair") =>
            result'.pair # <<call.left_id, call.right_id>>]_vars

\* the skip changes no rating, so the selection has nothing but the skipped
\* pair to serve
C33_SamePairAgain == C33_Skipped => select_pair(Ranking) = {<<call.left_id, call.right_id>>}

\* p1 and p2 were skipped; p3 is rated and in a cluster of its own
C33_Witness ==
    /\ C33_Skipped
    /\ call.left_id = "p1"
    /\ call.right_id = "p2"
    /\ DOMAIN Ratings = Photos

\* the mutexes thread t holds a guard of
C34_Guards(t) ==
    IF call[t].pc # "locking" THEN {}
    ELSE LET steps == LockOrder[call[t].op]
             n == call[t].at
         IN  {steps[i][2] : i \in {i \in 1..n :
                                      /\ steps[i][1] = "lock"
                                      /\ \A j \in (i + 1)..n :
                                            steps[j] # <<"drop", steps[i][2]>>}}

\* thread t is inside a command, at a lock() of a mutex another thread holds
C34_Waits(t) ==
    /\ call[t].pc = "locking"
    /\ call[t].at < Len(LockOrder[call[t].op])
    /\ LET next == LockOrder[call[t].op][call[t].at + 1]
       IN  /\ next[1] = "lock"
           /\ \E u \in Threads \ {t} : next[2] \in C34_Guards(u)

\* C34: no interleaving of concurrently invoked commands deadlocks: there is
\* no state in which every thread waits for a mutex that another thread
\* holds.
C34_Stated == ~(\A t \in Threads : C34_Waits(t))

\* undo holds persistent and waits for image_records; initialize_app holds
\* config and image_records and waits for persistent
C34_Witness ==
    /\ call["t1"] = [op |-> "undo", pc |-> "locking", at |-> 1]
    /\ call["t2"] = [op |-> "initialize_app", pc |-> "locking", at |-> 3]
    /\ C34_Waits("t1")
    /\ C34_Waits("t2")

\* pair is no pair, or two distinct rated photos
C35_Valid(pair) ==
    \/ pair = Nothing
    \/ /\ pair[1] # pair[2]
       /\ pair[1] \in DOMAIN Ratings
       /\ pair[2] \in DOMAIN Ratings

\* a member of some cluster is not rated
C35_StaleMember ==
    \E c \in DOMAIN Ranking.clusters :
        \E i \in 1..Len(Ranking.clusters[c].photo_ids) :
            Ranking.clusters[c].photo_ids[i] \notin DOMAIN Ratings

\* C35: every pair select_pair returns, and so every pair get_pair returns,
\* is two distinct photo ids that are both keys of ratings, whichever the
\* phase, and also when clusters list ids that are not rated.
C35_DistinctRatedPair ==
    /\ \A phase \in {"intra_cluster", "global"} :
          \A pair \in select_pair([Ranking EXCEPT !.phase = phase]) : C35_Valid(pair)
    /\ (call.op = "get_pair" /\ Ranking.initialized) => C35_Valid(result.pair)

\* get_pair returned p1 and p3 while the cluster of p1 lists p2, which is
\* not rated any more
C35_Witness ==
    /\ call.op = "get_pair"
    /\ result.pair = <<"p1", "p3">>
    /\ DOMAIN Ratings = {"p1", "p3"}
    /\ C35_StaleMember
    /\ Ranking.phase = "intra_cluster"

\* a rated photo that is in no cluster is served
C35_UnclusteredCase ==
    /\ call.op = "get_pair"
    /\ result.pair # Nothing
    /\ \E i \in 1..2 : result.pair[i] \notin DOMAIN Ranking.photo_to_cluster

\* the step is a compare call that counts: one that recorded its comparison
\* (applied), or one that also returned Ok
C36_CompareCounted(applied) ==
    /\ call'.op = "compare"
    /\ IF applied THEN CompareApplied' ELSE result'.ok

\* the step is an undo_ranking call that counts: one that popped a record
\* (applied), or one that also returned Ok
C36_UndoCounted(applied) ==
    /\ call'.op = "undo_ranking"
    /\ IF applied THEN UndoApplied' ELSE result'.ok /\ result'.success

\* total_comparisons is 0 after init_ranking and moves by one with every
\* counted compare and undo_ranking, the undo never from 0
C36_Counts(applied) ==
    /\ C36_UndoCounted(applied) => Ranking.total_comparisons >= 1
    /\ IF call'.op = "init_ranking"
       THEN Ranking'.total_comparisons = 0 \/ UNCHANGED persistent
       ELSE Ranking'.total_comparisons =
               Ranking.total_comparisons
                   + (IF C36_CompareCounted(applied) THEN 1 ELSE 0)
                   - (IF C36_UndoCounted(applied) THEN 1 ELSE 0)

\* the original statement: total_comparisons is at least the length of the
\* ledger and equals the successful compare calls minus the successful
\* undo_ranking calls since the last init_ranking
C36_Stated ==
    /\ [](Ranking.initialized => Ranking.total_comparisons >= Len(History))
    /\ [][C36_Counts(FALSE)]_vars

\* C36: in every state of an initialized ranking total_comparisons is at
\* least the length of the ledger; it is 0 after init_ranking, goes up by one
\* with every compare that recorded its comparison (skips included, and also
\* when the save that follows fails) and down by one with every undo_ranking
\* that popped a record, which never finds it at 0.
C36_CounterTracksCalls ==
    /\ [](Ranking.initialized => Ranking.total_comparisons >= Len(History))
    /\ [][C36_Counts(TRUE)]_vars

\* a skip was recorded and undone: the counter is back at 0
C36_Witness ==
    /\ UndoApplied
    /\ result.ok
    /\ result.message = "Undone comparison: skip"
    /\ Ranking.initialized
    /\ Ranking.total_comparisons = 0

\* a compare returned the write error and is counted
C36_FailedSaveCase ==
    /\ CompareApplied
    /\ result = Err("io")
    /\ Ranking.total_comparisons = 1
    /\ Len(History) = 1

\* the records of the ledger that are no skip and name id, one that names it
\* on both sides counted twice
C37_Named(id) ==
    Cardinality({i \in 1..Len(History) :
                    History[i].result # "skip" /\ History[i].left_id = id})
    + Cardinality({i \in 1..Len(History) :
                      History[i].result # "skip" /\ History[i].right_id = id})

RECURSIVE C37_Sum(_, _)
\* the matches_played of the photos in ids, added up
C37_Sum(ratings, ids) ==
    IF ids = {} THEN 0
    ELSE LET id == CHOOSE x \in ids : TRUE
         IN  ratings[id].matches_played + C37_Sum(ratings, ids \ {id})

C37_Matches == C37_Sum(Ratings, DOMAIN Ratings)

\* C37: every photo's matches_played is at least the number of non-skip
\* records of the ledger that name it (twice for a record naming it on both
\* sides), so undo_ranking's decrement never clamps; and the sum of all
\* matches_played is twice the number of non-skip comparisons applied and
\* not undone: 0 after init_ranking, two more with every applied comparison
\* that is no skip, two less with every undo of one, unchanged otherwise.
C37_MatchesCoverLedger ==
    /\ [](\A id \in DOMAIN Ratings : Ratings[id].matches_played >= C37_Named(id))
    /\ [][LET changed ==
                  IF CompareApplied' /\ call'.result # "skip" THEN 2
                  ELSE IF UndoApplied' /\ Last(History).result # "skip" THEN 0 - 2
                  ELSE 0
          IN  IF call'.op = "init_ranking"
              THEN C37_Matches' = 0
              ELSE C37_Matches' = C37_Matches + changed]_vars

\* the 101st comparison names p1 on both sides: two more matches for p1,
\* while the oldest record, which named it, left the ledger
C37_Witness ==
    /\ CompareApplied
    /\ call.left_id = "p1"
    /\ call.right_id = "p1"
    /\ call.result = "left"
    /\ Len(History) = HISTORY_CAP
    /\ Ratings["p1"].matches_played = HISTORY_CAP + 2
    /\ C37_Named("p1") = HISTORY_CAP + 1

\* that comparison was undone
C37_UndoCase ==
    /\ UndoApplied
    /\ Len(History) = HISTORY_CAP - 1
    /\ Ratings["p1"].matches_played = HISTORY_CAP
    /\ C37_Named("p1") = HISTORY_CAP - 1
    /\ C37_Matches = 2 * HISTORY_CAP

\* cluster_photos has returned
C38_Clustered == call.op = "cluster_photos" /\ result.ok

\* the photos of the cache whose fingerprint has 64 characters
C38_Fingerprinted ==
    {id \in DOMAIN call.photo_hashes : Len(call.photo_hashes[id]) = HASH_HEX_LEN}

\* the places of photo id in the cluster lists
C38_Places(id) ==
    LET clusters == result.value.clusters
    IN  {ci \in (DOMAIN clusters) \X (1..Cardinality(DOMAIN call.photo_hashes)) :
            ci[2] <= Len(clusters[ci[1]]) /\ clusters[ci[1]][ci[2]] = id}

\* C38: cluster_photos returns a partition: every photo with a 64-character
\* fingerprint is in exactly one cluster list exactly once, photo_to_cluster
\* maps it to that cluster and to no other, photos with fingerprints of
\* another length are in neither map, no cluster is empty, every cluster
\* made has its own id, and the first members of any two clusters are at
\* Hamming distance above 10.
C38_Partition ==
    C38_Clustered =>
        LET clusters == result.value.clusters
            photo_to_cluster == result.value.photo_to_cluster
            first_hash(c) == call.photo_hashes[clusters[c][1]]
        IN  /\ \A id \in C38_Fingerprinted : Cardinality(C38_Places(id)) = 1
            /\ \A id \in (DOMAIN call.photo_hashes) \ C38_Fingerprinted : C38_Places(id) = {}
            /\ DOMAIN photo_to_cluster = C38_Fingerprinted
            /\ \A id \in C38_Fingerprinted : \A c \in DOMAIN clusters :
                  photo_to_cluster[id] = c <=> \E i \in 1..Len(clusters[c]) : clusters[c][i] = id
            /\ \A c \in DOMAIN clusters : clusters[c] # <<>>
            /\ Cardinality(DOMAIN clusters) = result.value.cluster_count
            /\ \A c \in DOMAIN clusters : \A d \in (DOMAIN clusters) \ {c} :
                  hamming_distance(first_hash(c), first_hash(d)) > HAMMING_THRESHOLD

\* two clusters and a photo left out: p1 and p2 are 11 bits apart, p3 has a
\* short fingerprint
C38_Witness ==
    /\ C38_Clustered
    /\ call.photo_hashes = [p1 |-> FpEleven, p2 |-> FpBase, p3 |-> FpShort]
    /\ result.order = <<"p3", "p1", "p2">>
    /\ result.value.clusters = [cluster_0000 |-> <<"p1">>, cluster_0001 |-> <<"p2">>]

\* three photos with the same 64 characters that are no hex string: three
\* clusters
C38_NoHexCase ==
    /\ C38_Clustered
    /\ DOMAIN call.photo_hashes = Photos
    /\ \A id \in Photos : call.photo_hashes[id][1] = 16
    /\ Cardinality(DOMAIN result.value.clusters) = 3


\* ---------------------------------------------------------------------------
\* C39: a failing triage operation and the triage state
\* ---------------------------------------------------------------------------

\* the triage state a swipe or an undo works on
C39_TriageState(p) == <<p.decisions, p.history, p.moved_files, p.original_paths>>

\* this step is a swipe that failed for one of the three reasons named
C39_SwipeFailed ==
    /\ call'.op = "swipe"
    /\ result' \in {Err("Image not found"), Err("Invalid direction"), Err("move")}

\* this step is an undo that failed because the file could not be moved back
C39_UndoFailed == call'.op = "undo" /\ result' = Err("move")

\* C39 as stated: when swipe fails (unknown image id, invalid direction, or
\* the file move fails) or undo fails because moving the file back fails, the
\* decisions, the history, moved_files and original_paths are exactly what
\* they were before the call.
C39_Stated ==
    [][(C39_SwipeFailed \/ C39_UndoFailed) =>
          C39_TriageState(persistent') = C39_TriageState(persistent)]_vars

\* C39, the swipe half: a swipe that fails on an unknown id, an invalid
\* direction or a failed move changes nothing of the persistent state.
C39_FailedSwipeKeepsState == [][C39_SwipeFailed => persistent' = persistent]_vars

\* C39, the undo half as the code has it: an undo whose move back fails has
\* removed the last history entry and nothing else.
C39_FailedUndoDropsEntry ==
    [][C39_UndoFailed =>
          /\ persistent.history # <<>>
          /\ persistent' = [persistent EXCEPT !.history = pop(@)]]_vars

\* the undo of an accepted image has failed: the image is still accepted, its
\* file is still recorded as moved, and the history no longer holds the swipe
C39_Witness ==
    /\ call.op = "undo"
    /\ result = Err("move")
    /\ persistent.history = <<>>
    /\ "a" \in DOMAIN persistent.decisions
    /\ persistent.decisions["a"] = "accepted"
    /\ "a" \in DOMAIN persistent.moved_files
    /\ "a" \in DOMAIN persistent.original_paths

\* a swipe of a scanned image has failed because its file could not be moved
C39_FailedSwipeCase ==
    /\ call.op = "swipe"
    /\ call.image_id = "a"
    /\ result = Err("move")
    /\ image_records # <<>>
    /\ persistent.history = <<>>


\* ---------------------------------------------------------------------------
\* C40: the image on display after a swipe
\* ---------------------------------------------------------------------------

\* the record get_current_image answers with in this state
C40_Shown == get_current_record(image_records, pending_indices, persistent.current_index)

\* the pending list holds an image other than id
C40_AnotherPending(pending, id) ==
    \E i \in 1..Len(pending) : image_records[pending[i]].id # id

\* this step is a successful swipe, in one of the directions, of the image
\* that get_current_image has just put on display
C40_SwipedShown(directions) ==
    /\ call.op = "get_current_image"
    /\ ~result.done
    /\ call'.op = "swipe"
    /\ call'.image_id = result.id
    /\ call'.direction \in directions
    /\ result'.ok

\* C40 as stated: after a successful swipe of the current image in any
\* direction (left, right or down), get_current_image returns a different
\* image whenever another pending image exists; a skipped image does not stay
\* the current image.
C40_Stated ==
    [][(C40_SwipedShown({"left", "right", "down"}) /\ C40_AnotherPending(pending_indices', result.id)) =>
          /\ C40_Shown' # Nothing
          /\ C40_Shown'.id # result.id]_vars

\* C40, the swipes that decide: after a successful swipe left or right of the
\* current image, another image is on display if one is pending, and the
\* triage is done otherwise.
C40_DecidedImageLeaves ==
    [][C40_SwipedShown({"left", "right"}) =>
          IF C40_AnotherPending(pending_indices', result.id)
          THEN C40_Shown' # Nothing /\ C40_Shown'.id # result.id
          ELSE C40_Shown' = Nothing]_vars

\* C40, the skip as the code has it: after a successful swipe down of the
\* current image the same image is on display, at the same index.
C40_SkippedImageStays ==
    [][C40_SwipedShown({"down"}) =>
          /\ persistent'.current_index = persistent.current_index
          /\ C40_Shown' # Nothing
          /\ C40_Shown'.id = result.id]_vars

\* the first swipe of the session skipped the first image; the second image is
\* pending, and the first is still the one on display
C40_Witness ==
    /\ call.op = "swipe"
    /\ call.direction = "down"
    /\ result.ok
    /\ Len(persistent.history) = 1
    /\ C40_AnotherPending(pending_indices, call.image_id)
    /\ C40_Shown # Nothing
    /\ C40_Shown.id = call.image_id

\* the image on display was accepted and the other image is now on display
C40_AcceptedCase ==
    /\ call.op = "swipe"
    /\ call.direction = "right"
    /\ result.ok
    /\ call.image_id \in DOMAIN persistent.moved_files
    /\ C40_Shown # Nothing
    /\ C40_Shown.id # call.image_id

\* get_current_image reports done after the last pending image was decided
C40_DoneCase ==
    /\ call.op = "get_current_image"
    /\ result.done
    /\ image_records # <<>>
    /\ persistent.history # <<>>
====
